---- MODULE Spec2Model ----
(***************************************************************************)
(* The request/response bridge of 8b-theme-mcp.                            *)
(*                                                                         *)
(*   BridgeClient (src/src/bridge/client.ts): the child-side correlator.   *)
(*   BridgeServer (src/unnamed/part_002): the parent-side dispatcher and   *)
(*   method executor.                                                      *)
(*                                                                         *)
(* Encoding of JavaScript values                                           *)
(*   - a string is the sequence of the fragments it is concatenated from   *)
(*     (a template literal `a ${x} b` is <<"a ", x, " b">>); the empty     *)
(*     string is <<>>;                                                     *)
(*   - an optional property is <<>> when absent/undefined and <<v>> when   *)
(*     present with value v.                                               *)
(***************************************************************************)
EXTENDS Integers, Sequences, FiniteSets, TLC

VARIABLES
    requestId,        \* BridgeClient.requestId
    pendingRequests,  \* BridgeClient.pendingRequests: id -> PendingRequest
    timers,           \* the armed setTimeout handles (one per call closure)
    calls,            \* the closure of every call issued: id -> method, params, timeout
    outcomes,         \* id -> the continuations invoked for that call, in order
    channel,          \* the IPC channel to the parent, as the child sees it
    toParent,         \* requests handed to the channel, not yet handled by the parent
    toChild,          \* responses sent by the parent, not yet delivered to the child
    store,            \* the parent's tiered configuration store
    BRIDGE_PORT,      \* process.env.BRIDGE_PORT of the child
    main,             \* where main() of the standalone server is
    bridge2,          \* a second BridgeClient in the same process: its fields
    tool,             \* the tool call the CallTool handler is serving, and where it is
    handlers,         \* the invocations of the parent's messageHandler, in order of start
    lastEvent         \* the handler that ran in the last step, and what it was given

vars == <<requestId, pendingRequests, timers, calls, outcomes, channel,
          toParent, toChild, store, BRIDGE_PORT, main, bridge2, tool, handlers, lastEvent>>

----------------------------------------------------------------------------
(* Bounds of the model *)

MaxCalls == 2

ShortTimeoutMs == 50

BRIDGE_REQUEST_TIMEOUT_MS == 30000

----------------------------------------------------------------------------
(* JavaScript values *)

Absent == <<>>

Present(v) == <<v>>

EmptyString == <<>>

\* !x for an optional string property: undefined and '' are falsy
Falsy(opt) == opt = Absent \/ opt[1] = EmptyString

\* "the message names x": x is one of the fragments the message is built from
Names(message, x) == \E i \in 1..Len(message) : message[i] = x

Range(f) == {f[x] : x \in DOMAIN f}

----------------------------------------------------------------------------
(* Protocol *)

Methods ==
    {<<"getCurrentColors">>, <<"getColor">>, <<"setColor">>, <<"setColors">>,
     <<"resetColor">>, <<"resetAllColors">>}

\* `req-${this.requestId++}`
RequestIdOf(n) == <<"req-", ToString(n)>>

BridgeRequest(id, method, params) ==
    [id |-> Present(id), method |-> Present(method), params |-> params]

\* the params object of a request; a property left out is Absent
Params(key, value, colors, target) ==
    [key |-> key, value |-> value, colors |-> colors, target |-> target]

\* the type guard: an object with a string id and, if present, a string error
isBridgeResponse(message) == message.id # Absent

----------------------------------------------------------------------------
(* Map<string, PendingRequest> and the timer table *)

MapHas(map, key) == key \in DOMAIN map

MapSet(map, key, value) == [k \in DOMAIN map \cup {key} |-> IF k = key THEN value ELSE map[k]]

MapDelete(map, key) == [k \in DOMAIN map \ {key} |-> map[k]]

MapClear(map) == [k \in {} |-> <<>>]

setTimeout(armed, handle) == armed \cup {handle}

clearTimeout(armed, handle) == armed \ {handle}

----------------------------------------------------------------------------
(* Continuations of a call: the resolve and reject functions of its Promise *)

Resolved(by, value) == [kind |-> "resolve", by |-> by, value |-> value, message |-> <<>>]

Rejected(by, message) == [kind |-> "reject", by |-> by, value |-> Absent, message |-> message]

Invoke(log, id, entry) ==
    IF id \in DOMAIN log THEN [log EXCEPT ![id] = Append(@, entry)]
    ELSE MapSet(log, id, <<entry>>)

----------------------------------------------------------------------------
(* BridgeClient *)

\* the fields of a BridgeClient after its constructor, with the timers its calls armed
\* and the continuations invoked for its calls
NewBridgeClient ==
    [requestId |-> 0, pendingRequests |-> MapClear(<<>>), timers |-> {},
     outcomes |-> MapClear(<<>>)]

\* no tool call is being served
NoToolCall == [pc |-> "idle"]

\* faulty variant: the timeout error does not say which method timed out
TimeoutMessage_NoMethod(method, timeout) ==
    <<"Bridge request timeout", " (waited ", ToString(timeout), "ms)">>

TimeoutMessage(method, timeout) ==
    <<"Bridge request timeout: ">> \o method \o <<" (waited ", ToString(timeout), "ms)">>

CleanupMessage == <<"BridgeClient cleanup - request cancelled">>

SendFailureMessage(send) ==
    CASE send.kind = "absent" ->
           <<"process.send is not available - not running as child process?">>
      [] send.kind = "false" ->
           <<"Failed to send IPC message - channel may be closed">>
      [] send.kind = "throws" ->
           <<"Exception sending IPC message: ">> \o send.message

\* what process.send can do for one call, given the state of the channel
SendResults ==
    CASE channel = "absent" -> {[kind |-> "absent", message |-> <<>>]}
      [] channel = "open" ->
           {[kind |-> "sent", message |-> <<>>],
            [kind |-> "false", message |-> <<>>],
            [kind |-> "throws", message |-> <<"circular structure">>]}
      [] OTHER ->
           {[kind |-> "false", message |-> <<>>],
            [kind |-> "throws", message |-> <<"Channel closed">>]}

\* faulty variant: the timer is never armed
call_NoTimer(method, params, timeout, send) ==
    LET id == RequestIdOf(requestId)
        stored == MapSet(pendingRequests, id, [timer |-> id, cancelled |-> FALSE])
        issued == MapSet(outcomes, id, <<>>)
    IN  /\ requestId' = requestId + 1
        /\ calls' = MapSet(calls, id, [method |-> method, params |-> params, timeout |-> timeout])
        /\ timers' = timers
        /\ IF send.kind = "sent"
           THEN /\ pendingRequests' = stored
                /\ outcomes' = issued
           ELSE /\ pendingRequests' = MapDelete(stored, id)
                /\ outcomes' = Invoke(issued, id, Rejected("send", SendFailureMessage(send)))
        /\ UNCHANGED channel

\* faulty variant: a failed send rejects the call but leaves its record and timer behind
call_LeavesRecord(method, params, timeout, send) ==
    LET id == RequestIdOf(requestId)
        issued == MapSet(outcomes, id, <<>>)
    IN  /\ requestId' = requestId + 1
        /\ calls' = MapSet(calls, id, [method |-> method, params |-> params, timeout |-> timeout])
        /\ timers' = setTimeout(timers, id)
        /\ pendingRequests' = MapSet(pendingRequests, id, [timer |-> id, cancelled |-> FALSE])
        /\ outcomes' =
             IF send.kind = "sent" THEN issued
             ELSE Invoke(issued, id, Rejected("send", SendFailureMessage(send)))
        /\ UNCHANGED channel

\* faulty variant: the id is built from this.requestId without the increment
call_NoIncrement(method, params, timeout, send) ==
    LET id == RequestIdOf(requestId)
        issued == MapSet(outcomes, id, <<>>)
    IN  /\ requestId' = requestId
        /\ calls' = MapSet(calls, id, [method |-> method, params |-> params, timeout |-> timeout])
        /\ IF send.kind = "sent"
           THEN /\ timers' = setTimeout(timers, id)
                /\ pendingRequests' = MapSet(pendingRequests, id, [timer |-> id, cancelled |-> FALSE])
                /\ outcomes' = issued
           ELSE /\ timers' = clearTimeout(timers, id)
                /\ pendingRequests' = MapDelete(pendingRequests, id)
                /\ outcomes' = Invoke(issued, id, Rejected("send", SendFailureMessage(send)))
        /\ UNCHANGED channel

\* faulty variant: the value process.send returns is not looked at; only an exception
\* or a missing process.send fails the call
call_IgnoresSendReturn(method, params, timeout, send) ==
    LET id == RequestIdOf(requestId)
        issued == MapSet(outcomes, id, <<>>)
    IN  /\ requestId' = requestId + 1
        /\ calls' = MapSet(calls, id, [method |-> method, params |-> params, timeout |-> timeout])
        /\ IF send.kind \in {"sent", "false"}
           THEN /\ timers' = setTimeout(timers, id)
                /\ pendingRequests' = MapSet(pendingRequests, id, [timer |-> id, cancelled |-> FALSE])
                /\ outcomes' = issued
           ELSE /\ timers' = clearTimeout(timers, id)
                /\ pendingRequests' = MapDelete(pendingRequests, id)
                /\ outcomes' = Invoke(issued, id, Rejected("send", SendFailureMessage(send)))
        /\ UNCHANGED channel

\* call<M>(method, params, timeout): one synchronous step (the Promise executor)
call(method, params, timeout, send) ==
    LET id == RequestIdOf(requestId)
        timer == id
        armed == setTimeout(timers, timer)
        stored == MapSet(pendingRequests, id, [timer |-> timer, cancelled |-> FALSE])
        issued == MapSet(outcomes, id, <<>>)
    IN  /\ requestId' = requestId + 1
        /\ calls' = MapSet(calls, id, [method |-> method, params |-> params, timeout |-> timeout])
        /\ IF send.kind = "sent"
           THEN /\ timers' = armed
                /\ pendingRequests' = stored
                /\ outcomes' = issued
           ELSE /\ timers' = clearTimeout(armed, timer)
                /\ pendingRequests' = MapDelete(stored, id)
                /\ outcomes' = Invoke(issued, id, Rejected("send", SendFailureMessage(send)))
        /\ UNCHANGED channel

\* faulty variant: a response whose id is not pending settles the oldest pending call
MessageListener_ByOrder(message) ==
    IF ~isBridgeResponse(message) \/ DOMAIN pendingRequests = {}
    THEN UNCHANGED <<pendingRequests, timers, outcomes>>
    ELSE LET id == IF MapHas(pendingRequests, message.id[1]) THEN message.id[1]
                   ELSE RequestIdOf(CHOOSE n \in 0..requestId :
                          /\ MapHas(pendingRequests, RequestIdOf(n))
                          /\ \A m \in 0..(n - 1) : ~MapHas(pendingRequests, RequestIdOf(m)))
         IN  /\ timers' = clearTimeout(timers, pendingRequests[id].timer)
             /\ outcomes' =
                  IF ~Falsy(message.error)
                  THEN Invoke(outcomes, id, Rejected("listener", message.error[1]))
                  ELSE Invoke(outcomes, id, Resolved("listener", message.result))
             /\ pendingRequests' = MapDelete(pendingRequests, id)

\* faulty variant: the record is removed after a result only; after an error response
\* it stays in the table, marked cancelled
MessageListener_KeepsRecordOnError(message) ==
    IF ~isBridgeResponse(message)
    THEN UNCHANGED <<pendingRequests, timers, outcomes>>
    ELSE LET id == message.id[1] IN
         IF ~MapHas(pendingRequests, id) \/ pendingRequests[id].cancelled
         THEN UNCHANGED <<pendingRequests, timers, outcomes>>
         ELSE /\ timers' = clearTimeout(timers, pendingRequests[id].timer)
              /\ IF ~Falsy(message.error)
                 THEN /\ outcomes' = Invoke(outcomes, id,
                                            Rejected("listener", message.error[1]))
                      /\ pendingRequests' = [pendingRequests EXCEPT ![id].cancelled = TRUE]
                 ELSE /\ outcomes' = Invoke(outcomes, id,
                                            Resolved("listener", message.result))
                      /\ pendingRequests' = MapDelete(pendingRequests, id)

\* faulty variant: a response settles its call and removes the record without
\* clearing the call's timer
MessageListener_KeepsTimer(message) ==
    IF ~isBridgeResponse(message)
    THEN UNCHANGED <<pendingRequests, timers, outcomes>>
    ELSE LET id == message.id[1] IN
         IF ~MapHas(pendingRequests, id) \/ pendingRequests[id].cancelled
         THEN UNCHANGED <<pendingRequests, timers, outcomes>>
         ELSE /\ timers' = timers
              /\ outcomes' =
                   IF ~Falsy(message.error)
                   THEN Invoke(outcomes, id, Rejected("listener", message.error[1]))
                   ELSE Invoke(outcomes, id, Resolved("listener", message.result))
              /\ pendingRequests' = MapDelete(pendingRequests, id)

\* faulty variant: a response whose id is not pending is handed to the call issued
\* last among the pending ones
MessageListener_LateGoesToLatest(message) ==
    IF ~isBridgeResponse(message) \/ DOMAIN pendingRequests = {}
    THEN UNCHANGED <<pendingRequests, timers, outcomes>>
    ELSE LET id == IF MapHas(pendingRequests, message.id[1]) THEN message.id[1]
                   ELSE RequestIdOf(CHOOSE n \in 0..requestId :
                          /\ MapHas(pendingRequests, RequestIdOf(n))
                          /\ \A m \in (n + 1)..requestId :
                                ~MapHas(pendingRequests, RequestIdOf(m)))
         IN  /\ timers' = clearTimeout(timers, pendingRequests[id].timer)
             /\ outcomes' =
                  IF ~Falsy(message.error)
                  THEN Invoke(outcomes, id, Rejected("listener", message.error[1]))
                  ELSE Invoke(outcomes, id, Resolved("listener", message.result))
             /\ pendingRequests' = MapDelete(pendingRequests, id)

\* faulty variant: a response settles its call and marks the record, but the record is
\* never deleted
MessageListener_KeepsRecord(message) ==
    IF ~isBridgeResponse(message)
    THEN UNCHANGED <<pendingRequests, timers, outcomes>>
    ELSE LET id == message.id[1] IN
         IF ~MapHas(pendingRequests, id) \/ pendingRequests[id].cancelled
         THEN UNCHANGED <<pendingRequests, timers, outcomes>>
         ELSE /\ timers' = clearTimeout(timers, pendingRequests[id].timer)
              /\ outcomes' =
                   IF ~Falsy(message.error)
                   THEN Invoke(outcomes, id, Rejected("listener", message.error[1]))
                   ELSE Invoke(outcomes, id, Resolved("listener", message.result))
              /\ pendingRequests' = [pendingRequests EXCEPT ![id].cancelled = TRUE]

\* faulty variant: responses are matched to calls in the order the calls were issued,
\* whatever id they bear
MessageListener_Fifo(message) ==
    IF ~isBridgeResponse(message) \/ DOMAIN pendingRequests = {}
    THEN UNCHANGED <<pendingRequests, timers, outcomes>>
    ELSE LET id == RequestIdOf(CHOOSE n \in 0..requestId :
                          /\ MapHas(pendingRequests, RequestIdOf(n))
                          /\ \A m \in 0..(n - 1) : ~MapHas(pendingRequests, RequestIdOf(m)))
         IN  /\ timers' = clearTimeout(timers, pendingRequests[id].timer)
             /\ outcomes' =
                  IF ~Falsy(message.error)
                  THEN Invoke(outcomes, id, Rejected("listener", message.error[1]))
                  ELSE Invoke(outcomes, id, Resolved("listener", message.result))
             /\ pendingRequests' = MapDelete(pendingRequests, id)

\* faulty variant: a message that is no response makes the listener forget every
\* pending call and its timer
MessageListener_ResetsOnGarbage(message) ==
    IF ~isBridgeResponse(message)
    THEN /\ timers' = {}
         /\ pendingRequests' = MapClear(pendingRequests)
         /\ outcomes' = outcomes
    ELSE LET id == message.id[1] IN
         IF ~MapHas(pendingRequests, id)
         THEN UNCHANGED <<pendingRequests, timers, outcomes>>
         ELSE /\ timers' = clearTimeout(timers, pendingRequests[id].timer)
              /\ outcomes' =
                   IF ~Falsy(message.error)
                   THEN Invoke(outcomes, id, Rejected("listener", message.error[1]))
                   ELSE Invoke(outcomes, id, Resolved("listener", message.result))
              /\ pendingRequests' = MapDelete(pendingRequests, id)

\* process.on('message', ...)
MessageListener(message) ==
    IF ~isBridgeResponse(message)
    THEN UNCHANGED <<pendingRequests, timers, outcomes>>
    ELSE LET id == message.id[1] IN
         IF ~MapHas(pendingRequests, id)
         THEN UNCHANGED <<pendingRequests, timers, outcomes>>
         ELSE LET pending == pendingRequests[id] IN
              IF pending.cancelled
              THEN UNCHANGED <<pendingRequests, timers, outcomes>>
              ELSE LET marked == [pendingRequests EXCEPT ![id].cancelled = TRUE] IN
                   /\ timers' = clearTimeout(timers, pending.timer)
                   /\ outcomes' =
                        IF ~Falsy(message.error)
                        THEN Invoke(outcomes, id, Rejected("listener", message.error[1]))
                        ELSE Invoke(outcomes, id, Resolved("listener", message.result))
                   /\ pendingRequests' = MapDelete(marked, id)

\* faulty variant: the timeout rejects the call but forgets to remove its record
TimeoutHandler_KeepsRecord(id) ==
    /\ timers' = timers \ {id}
    /\ IF ~MapHas(pendingRequests, id) \/ pendingRequests[id].cancelled
       THEN UNCHANGED <<pendingRequests, outcomes>>
       ELSE /\ pendingRequests' = pendingRequests
            /\ outcomes' = Invoke(outcomes, id,
                   Rejected("timeout", TimeoutMessage(calls[id].method, calls[id].timeout)))

\* the setTimeout callback of call(); the handle is one-shot
\* faulty variant: the timer's callback rejects its call and then empties the table
TimeoutHandler_ClearsTable(id) ==
    /\ timers' = timers \ {id}
    /\ IF ~MapHas(pendingRequests, id) \/ pendingRequests[id].cancelled
       THEN UNCHANGED <<pendingRequests, outcomes>>
       ELSE /\ pendingRequests' = MapClear(pendingRequests)
            /\ outcomes' = Invoke(outcomes, id,
                   Rejected("timeout", TimeoutMessage(calls[id].method, calls[id].timeout)))

TimeoutHandler(id) ==
    /\ timers' = timers \ {id}
    /\ IF ~MapHas(pendingRequests, id) \/ pendingRequests[id].cancelled
       THEN UNCHANGED <<pendingRequests, outcomes>>
       ELSE LET marked == [pendingRequests EXCEPT ![id].cancelled = TRUE] IN
            /\ pendingRequests' = MapDelete(marked, id)
            /\ outcomes' = Invoke(outcomes, id,
                   Rejected("timeout", TimeoutMessage(calls[id].method, calls[id].timeout)))

\* faulty variant: the loop stops after the first record
RejectAll_OnlyFirst(log, ids, message) ==
    IF ids = {} THEN log
    ELSE LET id == CHOOSE i \in ids : TRUE
         IN  Invoke(log, id, Rejected("cleanup", message))

RECURSIVE RejectAll(_, _, _)
RejectAll(log, ids, message) ==
    IF ids = {} THEN log
    ELSE LET id == CHOOSE i \in ids : TRUE
         IN  RejectAll(Invoke(log, id, Rejected("cleanup", message)), ids \ {id}, message)

\* faulty variant: every record is rejected but the table is not cleared
cleanup_NoClear ==
    /\ timers' = timers \ {pendingRequests[id].timer : id \in DOMAIN pendingRequests}
    /\ outcomes' = RejectAll(outcomes, DOMAIN pendingRequests, CleanupMessage)
    /\ pendingRequests' = pendingRequests

\* faulty variant: cleanup rejects every record and marks it cancelled, and leaves the
\* records in the table
cleanup_MarksCancelled ==
    /\ timers' = timers \ {pendingRequests[id].timer : id \in DOMAIN pendingRequests}
    /\ outcomes' = RejectAll(outcomes, DOMAIN pendingRequests, CleanupMessage)
    /\ pendingRequests' = [id \in DOMAIN pendingRequests |->
                              [pendingRequests[id] EXCEPT !.cancelled = TRUE]]

\* cleanup(): also the whole of the 'disconnect' handler
cleanup ==
    /\ timers' = timers \ {pendingRequests[id].timer : id \in DOMAIN pendingRequests}
    /\ outcomes' = RejectAll(outcomes, DOMAIN pendingRequests, CleanupMessage)
    /\ pendingRequests' = MapClear(pendingRequests)

getPendingRequestCount == Cardinality(DOMAIN pendingRequests)

----------------------------------------------------------------------------
(* VSCodeConfig: the tiered store behind the executor.  Each tier holds the  *)
(* colour customizations written to it; a read sees the tiers merged, the    *)
(* narrower tier winning.                                                    *)

vscodeConfigurationTarget == [Global |-> 1, Workspace |-> 2, WorkspaceFolder |-> 3]

Tiers == Range(vscodeConfigurationTarget)

EmptyMap == [k \in {} |-> <<>>]

Merge(over, under) ==
    [k \in DOMAIN over \cup DOMAIN under |-> IF k \in DOMAIN over THEN over[k] ELSE under[k]]

Effective(st) == Merge(st[3], Merge(st[2], st[1]))

ConfigGetCurrentColors(st) == Effective(st)

ConfigGetColor(st, key) ==
    IF key \in DOMAIN Effective(st) THEN Present(Effective(st)[key]) ELSE Absent

ConfigSetColor(st, key, value, target) == [st EXCEPT ![target] = MapSet(@, key, value)]

ConfigSetColors(st, colors, target) == [st EXCEPT ![target] = Merge(colors, @)]

ConfigResetColor(st, key, target) == [st EXCEPT ![target] = MapDelete(@, key)]

ConfigResetAllColors(st, target) == [st EXCEPT ![target] = EmptyMap]

----------------------------------------------------------------------------
(* BridgeServer *)

\* the type guard: an object with a string id and a string method
isBridgeRequest(message) == message.id # Absent /\ message.method # Absent

\* faulty variant: a request without a target is written to the workspace settings
mapConfigurationTarget_DefaultsToWorkspace(target) ==
    IF Falsy(target) THEN vscodeConfigurationTarget.Workspace
    ELSE CASE target[1] = <<"Global">> -> vscodeConfigurationTarget.Global
           [] target[1] = <<"Workspace">> -> vscodeConfigurationTarget.Workspace
           [] target[1] = <<"WorkspaceFolder">> -> vscodeConfigurationTarget.WorkspaceFolder
           [] OTHER -> vscodeConfigurationTarget.Global

\* faulty variant: a selector that is none of the three names falls into the last
\* case of the switch
mapConfigurationTarget_UnknownIsLastCase(target) ==
    IF Falsy(target) THEN vscodeConfigurationTarget.Global
    ELSE CASE target[1] = <<"Global">> -> vscodeConfigurationTarget.Global
           [] target[1] = <<"Workspace">> -> vscodeConfigurationTarget.Workspace
           [] OTHER -> vscodeConfigurationTarget.WorkspaceFolder

mapConfigurationTarget(target) ==
    IF Falsy(target) THEN vscodeConfigurationTarget.Global
    ELSE CASE target[1] = <<"Global">> -> vscodeConfigurationTarget.Global
           [] target[1] = <<"Workspace">> -> vscodeConfigurationTarget.Workspace
           [] target[1] = <<"WorkspaceFolder">> -> vscodeConfigurationTarget.WorkspaceFolder
           [] OTHER -> vscodeConfigurationTarget.Global

\* a thrown value: an Error with a message, or any other value (text is its String())
NewError(message) == [isError |-> TRUE, text |-> message]

Returned(value, ops, st) ==
    [threw |-> FALSE, value |-> value, thrown |-> NewError(<<>>), ops |-> ops, store |-> st]

Throw(thrown, ops, st) ==
    [threw |-> TRUE, value |-> Absent, thrown |-> thrown, ops |-> ops, store |-> st]

Success == Present([t |-> "ack", v |-> "success"])

\* one awaited VSCodeConfig operation, called with the arguments args and, where one
\* is passed, a configuration target: it fails throwing fault[1] (leaving the store
\* alone) or returns `value` with the store as written
Awaited(op, args, target, fault, value, before, after) ==
    LET invoked == <<[op |-> op, args |-> args, target |-> target]>> IN
    IF fault # Absent THEN Throw(fault[1], invoked, before)
    ELSE Returned(value, invoked, after)

\* callMethod, case 'getCurrentColors'
callGetCurrentColors(params, st, fault) ==
    Awaited("getCurrentColors", <<>>, Absent, fault,
            Present([t |-> "map", v |-> ConfigGetCurrentColors(st)]), st, st)

\* faulty variant: getColor reads the tier its request names
callGetColor_ReadsNamedTier(params, st, fault) ==
    IF Falsy(params.key)
    THEN Throw(NewError(<<"Missing required parameter: ", "key">>), <<>>, st)
    ELSE LET tier == st[mapConfigurationTarget(params.target)]
             found == IF params.key[1] \in DOMAIN tier THEN Present(tier[params.key[1]])
                      ELSE Absent
         IN  Awaited("getColor", <<params.key[1]>>, Absent, fault,
                     IF found = Absent THEN Absent ELSE Present([t |-> "str", v |-> found[1]]),
                     st, st)

\* callMethod, case 'getColor'
callGetColor(params, st, fault) ==
    IF Falsy(params.key)
    THEN Throw(NewError(<<"Missing required parameter: ", "key">>), <<>>, st)
    ELSE LET found == ConfigGetColor(st, params.key[1]) IN
         Awaited("getColor", <<params.key[1]>>, Absent, fault,
                 IF found = Absent THEN Absent ELSE Present([t |-> "str", v |-> found[1]]),
                 st, st)

\* faulty variant: only the key is validated; a missing value is written as 'undefined'
callSetColor_ChecksKeyOnly(params, st, fault) ==
    IF Falsy(params.key)
    THEN Throw(NewError(<<"Missing required parameters: ", "key", ", ", "value">>), <<>>, st)
    ELSE LET written == IF params.value = Absent THEN <<"undefined">> ELSE params.value[1]
             setColorTarget == mapConfigurationTarget(params.target)
         IN  Awaited("setColor", <<params.key[1], written>>, Present(setColorTarget), fault,
                     Success, st,
                     ConfigSetColor(st, params.key[1], written, setColorTarget))

\* callMethod, case 'setColor'
callSetColor(params, st, fault) ==
    IF Falsy(params.key) \/ Falsy(params.value)
    THEN Throw(NewError(<<"Missing required parameters: ", "key", ", ", "value">>), <<>>, st)
    ELSE LET setColorTarget == mapConfigurationTarget(params.target) IN
         Awaited("setColor", <<params.key[1], params.value[1]>>, Present(setColorTarget),
                 fault, Success, st,
                 ConfigSetColor(st, params.key[1], params.value[1], setColorTarget))

\* callMethod, case 'setColors'
callSetColors(params, st, fault) ==
    IF params.colors = Absent
    THEN Throw(NewError(<<"Missing required parameter: ", "colors">>), <<>>, st)
    ELSE LET setColorsTarget == mapConfigurationTarget(params.target) IN
         Awaited("setColors", <<params.colors[1]>>, Present(setColorsTarget), fault, Success, st,
                 ConfigSetColors(st, params.colors[1], setColorsTarget))

\* callMethod, case 'resetColor'
callResetColor(params, st, fault) ==
    IF Falsy(params.key)
    THEN Throw(NewError(<<"Missing required parameter: ", "key">>), <<>>, st)
    ELSE LET resetColorTarget == mapConfigurationTarget(params.target) IN
         Awaited("resetColor", <<params.key[1]>>, Present(resetColorTarget), fault, Success, st,
                 ConfigResetColor(st, params.key[1], resetColorTarget))

\* callMethod, case 'resetAllColors'
callResetAllColors(params, st, fault) ==
    LET resetAllTarget == mapConfigurationTarget(params.target) IN
    Awaited("resetAllColors", <<>>, Present(resetAllTarget), fault, Success, st,
            ConfigResetAllColors(st, resetAllTarget))

\* faulty variant: the switch has no default case and its last case, resetAllColors,
\* takes every other method
callMethod_LastCaseTakesRest(method, params, st, fault) ==
    CASE method = <<"getCurrentColors">> -> callGetCurrentColors(params, st, fault)
      [] method = <<"getColor">> -> callGetColor(params, st, fault)
      [] method = <<"setColor">> -> callSetColor(params, st, fault)
      [] method = <<"setColors">> -> callSetColors(params, st, fault)
      [] method = <<"resetColor">> -> callResetColor(params, st, fault)
      [] OTHER -> callResetAllColors(params, st, fault)

\* callMethod(method, params): fault is what the VSCodeConfig operation throws, if
\* it is reached and fails.  params?.x of an undefined params is an absent x.
callMethod(method, params, st, fault) ==
    CASE method = <<"getCurrentColors">> -> callGetCurrentColors(params, st, fault)
      [] method = <<"getColor">> -> callGetColor(params, st, fault)
      [] method = <<"setColor">> -> callSetColor(params, st, fault)
      [] method = <<"setColors">> -> callSetColors(params, st, fault)
      [] method = <<"resetColor">> -> callResetColor(params, st, fault)
      [] method = <<"resetAllColors">> -> callResetAllColors(params, st, fault)
      [] OTHER -> Throw(NewError(<<"Unknown bridge method: ">> \o method), <<>>, st)

\* error instanceof Error ? error.message : String(error)
ErrorMessageOf(thrown) == thrown.text

\* faulty variant: no try/catch around callMethod
handleRequest_NoCatch(request, st, fault) ==
    LET done == callMethod(request.method[1], request.params, st, fault) IN
    [rejected |-> done.threw,
     response |-> [id |-> request.id, result |-> done.value, error |-> Absent],
     threw |-> done.threw, thrown |-> done.thrown, ops |-> done.ops, store |-> done.store]

\* faulty variant: one response object is filled in on both paths, so a failure
\* response keeps a result field next to its error
handleRequest_BothFields(request, st, fault) ==
    LET done == callMethod(request.method[1], request.params, st, fault) IN
    IF ~done.threw
    THEN [rejected |-> FALSE,
          response |-> [id |-> request.id, result |-> done.value, error |-> Absent],
          threw |-> FALSE, thrown |-> done.thrown, ops |-> done.ops, store |-> done.store]
    ELSE [rejected |-> FALSE,
          response |-> [id |-> request.id, result |-> Present([t |-> "null", v |-> "null"]),
                        error |-> Present(ErrorMessageOf(done.thrown))],
          threw |-> TRUE, thrown |-> done.thrown, ops |-> done.ops, store |-> done.store]

\* handleRequest(request): the response, with what the executor did on the way
handleRequest(request, st, fault) ==
    LET done == callMethod(request.method[1], request.params, st, fault) IN
    IF ~done.threw
    THEN [rejected |-> FALSE,
          response |-> [id |-> request.id, result |-> done.value, error |-> Absent],
          threw |-> FALSE, thrown |-> done.thrown, ops |-> done.ops, store |-> done.store]
    ELSE [rejected |-> FALSE,
          response |-> [id |-> request.id, result |-> Absent,
                        error |-> Present(ErrorMessageOf(done.thrown))],
          threw |-> TRUE, thrown |-> done.thrown, ops |-> done.ops, store |-> done.store]

\* what process.send can do with a response in the parent: send it, be missing,
\* return false, throw
ParentSendResults ==
    {[kind |-> "sent", message |-> <<>>],
     [kind |-> "absent", message |-> <<>>],
     [kind |-> "false", message |-> <<>>],
     [kind |-> "throws", message |-> <<"Channel closed">>]}

SendsResponse == [kind |-> "sent", message |-> <<>>]

\* faulty variant: a failure response is sent from the catch block and the response
\* of the success path is sent after it as well
messageHandler_SendsAfterCatchToo(message, st, fault, send) ==
    IF ~isBridgeRequest(message)
    THEN [sent |-> {}, handled |-> FALSE, store |-> st, raised |-> Absent, logged |-> TRUE]
    ELSE LET done == handleRequest(message, st, fault)
             late == [id |-> message.id, result |-> Absent, error |-> Absent]
         IN
         [sent |-> IF send.kind # "sent" THEN {}
                   ELSE {[message |-> done.response, threw |-> done.threw,
                          thrown |-> done.thrown]}
                        \cup (IF done.threw
                              THEN {[message |-> late, threw |-> done.threw,
                                     thrown |-> done.thrown]}
                              ELSE {}),
          handled |-> TRUE, store |-> done.store,
          raised |-> IF send.kind = "throws" THEN Present(NewError(send.message)) ELSE Absent,
          logged |-> send.kind = "absent"]

\* faulty variant: the guard looks at the method only, a message without an id is run
messageHandler_ChecksMethodOnly(message, st, fault, send) ==
    IF message.method = Absent
    THEN [sent |-> {}, handled |-> FALSE, store |-> st, raised |-> Absent, logged |-> TRUE]
    ELSE LET done == handleRequest(message, st, fault) IN
         [sent |-> IF send.kind = "sent"
                   THEN {[message |-> done.response, threw |-> done.threw, thrown |-> done.thrown]}
                   ELSE {},
          handled |-> TRUE, store |-> done.store,
          raised |-> IF send.kind = "throws" THEN Present(NewError(send.message)) ELSE Absent,
          logged |-> send.kind = "absent"]

\* the messageHandler of setupIPC: what it hands to process.send (nothing when the
\* message is no request or process.send is missing), with what the executor did.
\* `raised` is what the async handler's promise is rejected with: process.send is
\* called outside any try/catch.  `logged` says whether console.error was called.
messageHandler(message, st, fault, send) ==
    IF ~isBridgeRequest(message)
    THEN [sent |-> {}, handled |-> FALSE, store |-> st, raised |-> Absent, logged |-> TRUE]
    ELSE LET done == handleRequest(message, st, fault) IN
         [sent |-> IF send.kind = "sent"
                   THEN {[message |-> done.response, threw |-> done.threw, thrown |-> done.thrown]}
                   ELSE {},
          handled |-> TRUE, store |-> done.store,
          raised |-> IF send.kind = "throws" THEN Present(NewError(send.message)) ELSE Absent,
          logged |-> send.kind = "absent"]

----------------------------------------------------------------------------
(* BridgeServer as src/bridge/server.ts has it: handleRequest is called by the *)
(* extension with a request; callMethod hands VSCodeConfig no target.         *)

\* the tier VSCodeConfig writes when it is handed no target
ConfigDefaultTarget == vscodeConfigurationTarget.Global

\* callMethod of src/bridge/server.ts
ServerTs_callMethod(method, params, st, fault) ==
    CASE method = <<"getCurrentColors">> -> callGetCurrentColors(params, st, fault)
      [] method = <<"getColor">> -> callGetColor(params, st, fault)
      [] method = <<"setColor">> ->
           IF Falsy(params.key) \/ Falsy(params.value)
           THEN Throw(NewError(<<"Missing required parameters: ", "key", ", ", "value">>),
                      <<>>, st)
           ELSE Awaited("setColor", <<params.key[1], params.value[1]>>, Absent, fault,
                        Success, st,
                        ConfigSetColor(st, params.key[1], params.value[1], ConfigDefaultTarget))
      [] method = <<"setColors">> ->
           IF params.colors = Absent
           THEN Throw(NewError(<<"Missing required parameter: ", "colors">>), <<>>, st)
           ELSE Awaited("setColors", <<params.colors[1]>>, Absent, fault, Success, st,
                        ConfigSetColors(st, params.colors[1], ConfigDefaultTarget))
      [] method = <<"resetColor">> ->
           IF Falsy(params.key)
           THEN Throw(NewError(<<"Missing required parameter: ", "key">>), <<>>, st)
           ELSE Awaited("resetColor", <<params.key[1]>>, Absent, fault, Success, st,
                        ConfigResetColor(st, params.key[1], ConfigDefaultTarget))
      [] method = <<"resetAllColors">> ->
           Awaited("resetAllColors", <<>>, Absent, fault, Success, st,
                   ConfigResetAllColors(st, ConfigDefaultTarget))
      [] OTHER -> Throw(NewError(<<"Unknown bridge method: ">> \o method), <<>>, st)

\* handleRequest of src/bridge/server.ts
ServerTs_handleRequest(request, st, fault) ==
    LET done == ServerTs_callMethod(request.method[1], request.params, st, fault) IN
    IF ~done.threw
    THEN [rejected |-> FALSE,
          response |-> [id |-> request.id, result |-> done.value, error |-> Absent],
          threw |-> FALSE, thrown |-> done.thrown, ops |-> done.ops, store |-> done.store]
    ELSE [rejected |-> FALSE,
          response |-> [id |-> request.id, result |-> Absent,
                        error |-> Present(ErrorMessageOf(done.thrown))],
          threw |-> TRUE, thrown |-> done.thrown, ops |-> done.ops, store |-> done.store]

----------------------------------------------------------------------------
(* The correlator against an arbitrary peer: calls are issued, any message   *)
(* may arrive on the channel at any time, timers fire, the channel closes,   *)
(* cleanup() is called.                                                      *)

Key1 == <<"editor.background">>

Color1 == <<"#1a1a1a">>

Color2 == <<"#ff00ff">>

\* the typed wrappers the correlator is exercised with
getColor(key, target) ==
    [method |-> <<"getColor">>, params |-> Params(key, Absent, Absent, target)]

setColor(key, value, target) ==
    [method |-> <<"setColor">>, params |-> Params(key, value, Absent, target)]

getCurrentColors(target) ==
    [method |-> <<"getCurrentColors">>, params |-> Params(Absent, Absent, Absent, target)]

setColors(colors, target) ==
    [method |-> <<"setColors">>, params |-> Params(Absent, Absent, colors, target)]

resetColor(key, target) ==
    [method |-> <<"resetColor">>, params |-> Params(key, Absent, Absent, target)]

resetAllColors(target) ==
    [method |-> <<"resetAllColors">>, params |-> Params(Absent, Absent, Absent, target)]

\* call(method, params, timeout) as the correlator is exercised: a wrapper with the
\* default timeout, and a direct call with a short one
CorrelatorCalls ==
    {[wrapper |-> getColor(Present(Key1), Absent), timeout |-> BRIDGE_REQUEST_TIMEOUT_MS],
     [wrapper |-> setColor(Present(Key1), Present(Color1), Absent), timeout |-> ShortTimeoutMs]}

CallIds == {RequestIdOf(n) : n \in 0..MaxCalls}

\* what can arrive on the 'message' event: responses for issued, future and never
\* issued ids, with and without result and error, and a message that is no response
ResponseShapes ==
    {[result |-> Present([t |-> "str", v |-> Color1]), error |-> Absent],
     [result |-> Absent, error |-> Absent],
     [result |-> Absent, error |-> Present(<<"boom">>)],
     [result |-> Absent, error |-> Present(EmptyString)]}

InjectedMessages ==
    {[id |-> Present(id), result |-> shape.result, error |-> shape.error] :
        id \in CallIds, shape \in ResponseShapes}
    \cup {[id |-> Absent, result |-> Absent, error |-> Absent]}

Init ==
    /\ requestId = 0
    /\ pendingRequests = EmptyMap
    /\ timers = {}
    /\ calls = EmptyMap
    /\ outcomes = EmptyMap
    /\ channel \in {"open", "absent"}
    /\ toParent = {}
    /\ toChild = {}
    /\ store = [t \in Tiers |-> EmptyMap]
    /\ BRIDGE_PORT = Present(<<"43117">>)
    /\ main = "serving"
    /\ bridge2 = NewBridgeClient
    /\ tool = NoToolCall
    /\ handlers = <<>>
    /\ lastEvent = [kind |-> "init"]

Call ==
    /\ requestId < MaxCalls
    /\ \E c \in CorrelatorCalls, send \in SendResults :
         /\ call(c.wrapper.method, c.wrapper.params, c.timeout, send)
         /\ lastEvent' = [kind |-> "call", id |-> RequestIdOf(requestId), send |-> send.kind]
    /\ UNCHANGED <<toParent, toChild, store>>
    /\ UNCHANGED <<BRIDGE_PORT, main, bridge2, tool, handlers>>

Message ==
    /\ \E message \in InjectedMessages :
         /\ MessageListener(message)
         /\ lastEvent' = [kind |-> "message", id |-> message.id]
    /\ UNCHANGED <<requestId, calls, channel, toParent, toChild, store>>
    /\ UNCHANGED <<BRIDGE_PORT, main, bridge2, tool, handlers>>

Timeout ==
    /\ \E id \in timers :
         /\ TimeoutHandler(id)
         /\ lastEvent' = [kind |-> "timeout", id |-> id]
    /\ UNCHANGED <<requestId, calls, channel, toParent, toChild, store>>
    /\ UNCHANGED <<BRIDGE_PORT, main, bridge2, tool, handlers>>

ChannelClose ==
    /\ channel = "open"
    /\ channel' = "closing"
    /\ lastEvent' = [kind |-> "close"]
    /\ UNCHANGED <<requestId, pendingRequests, timers, calls, outcomes, toParent, toChild, store>>
    /\ UNCHANGED <<BRIDGE_PORT, main, bridge2, tool, handlers>>

\* process.on('disconnect', ...)
Disconnect ==
    /\ channel = "closing"
    /\ channel' = "closed"
    /\ cleanup
    /\ lastEvent' = [kind |-> "disconnect"]
    /\ UNCHANGED <<requestId, calls, toParent, toChild, store>>
    /\ UNCHANGED <<BRIDGE_PORT, main, bridge2, tool, handlers>>

Cleanup ==
    /\ cleanup
    /\ lastEvent' = [kind |-> "cleanup"]
    /\ UNCHANGED <<requestId, calls, channel, toParent, toChild, store>>
    /\ UNCHANGED <<BRIDGE_PORT, main, bridge2, tool, handlers>>

Next == Call \/ Message \/ Timeout \/ ChannelClose \/ Disconnect \/ Cleanup

Spec == Init /\ [][Next]_vars

----------------------------------------------------------------------------
(* The dispatcher alone: any request may arrive, the VSCodeConfig operation it   *)
(* reaches may fail, the response is read off the channel by the child.          *)

KeyArgs == {Absent, Present(EmptyString), Present(Key1)}

ValueArgs == {Absent, Present(EmptyString), Present(Color1)}

ColorsArgs == {Absent, Present(EmptyMap), Present(Key1 :> Color2)}

TargetArgs ==
    {Absent, Present(<<"Global">>), Present(<<"Workspace">>), Present(<<"WorkspaceFolder">>),
     Present(<<"Everywhere">>), Present(<<"workspace">>)}

ReadTargetArgs == TargetArgs

\* the requests a peer can send: every method with every combination of its
\* parameters left out, empty or given, and a method outside the catalogue
RequestBodies ==
    {[method |-> <<"getCurrentColors">>, params |-> Params(Absent, Absent, Absent, t)] :
        t \in ReadTargetArgs}
    \cup {[method |-> <<"getColor">>, params |-> Params(k, Absent, Absent, t)] :
        k \in KeyArgs, t \in ReadTargetArgs}
    \cup {[method |-> <<"setColor">>, params |-> Params(k, v, Absent, t)] :
        k \in KeyArgs, v \in ValueArgs, t \in TargetArgs}
    \cup {[method |-> <<"setColors">>, params |-> Params(Absent, Absent, c, t)] :
        c \in ColorsArgs, t \in TargetArgs}
    \cup {[method |-> <<"resetColor">>, params |-> Params(k, Absent, Absent, t)] :
        k \in KeyArgs, t \in TargetArgs}
    \cup {[method |-> <<"resetAllColors">>, params |-> Params(Absent, Absent, Absent, t)] :
        t \in TargetArgs}
    \cup {[method |-> <<"deleteSettings">>, params |-> Params(Absent, Absent, Absent, Absent)],
          [method |-> <<"SetColor">>,
           params |-> Params(Present(Key1), Present(Color1), Absent, Present(<<"Workspace">>))]}

DispatcherRequests ==
    {BridgeRequest(RequestIdOf(n), body.method, body.params) :
        n \in 0..(MaxCalls - 1), body \in RequestBodies}

\* what a VSCodeConfig operation can throw: nothing, an Error, an Error with an empty
\* message, a value that is no Error
Faults ==
    {Absent,
     Present(NewError(<<"Unable to write to User Settings">>)),
     Present(NewError(EmptyString)),
     Present([isError |-> FALSE, text |-> <<"denied">>])}

DispatcherInit ==
    /\ requestId = 0
    /\ pendingRequests = EmptyMap
    /\ timers = {}
    /\ calls = EmptyMap
    /\ outcomes = EmptyMap
    /\ channel = "open"
    /\ toParent = {}
    /\ toChild = {}
    /\ store = [t \in Tiers |-> EmptyMap]
    /\ BRIDGE_PORT = Present(<<"43117">>)
    /\ main = "serving"
    /\ bridge2 = NewBridgeClient
    /\ tool = NoToolCall
    /\ handlers = <<>>
    /\ lastEvent = [kind |-> "init"]

\* the parent's 'message' event with a request
Dispatch ==
    /\ toChild = {}
    /\ \E request \in DispatcherRequests, fault \in Faults :
         LET done == handleRequest(request, store, fault)
             out == messageHandler(request, store, fault, SendsResponse)
         IN  /\ store' = out.store
             /\ toChild' = toChild \cup out.sent
             /\ lastEvent' = [kind |-> "handle", request |-> request, fault |-> fault,
                              done |-> done, before |-> store]
    /\ UNCHANGED <<requestId, pendingRequests, timers, calls, outcomes, channel, toParent>>
    /\ UNCHANGED <<BRIDGE_PORT, main, bridge2, tool, handlers>>

\* what else can arrive on the parent's 'message' event: a request that lost its id,
\* and a message without a method
ForeignMessages ==
    {[id |-> Absent, method |-> Present(<<"setColor">>),
      params |-> Params(Present(Key1), Present(Color2), Absent, Absent)],
     [id |-> Present(RequestIdOf(0)), method |-> Absent,
      params |-> Params(Absent, Absent, Absent, Absent)]}

\* the parent's 'message' event with a message that is no request
DispatchForeign ==
    /\ \E message \in ForeignMessages :
         LET out == messageHandler(message, store, Absent, SendsResponse)
         IN  /\ store' = out.store
             /\ toChild' = toChild \cup out.sent
             /\ lastEvent' = [kind |-> "foreign", message |-> message, handled |-> out.handled]
    /\ UNCHANGED <<requestId, pendingRequests, timers, calls, outcomes, channel, toParent>>
    /\ UNCHANGED <<BRIDGE_PORT, main, bridge2, tool, handlers>>

\* the response leaves the channel
ChildReceives ==
    /\ \E envelope \in toChild :
         /\ toChild' = toChild \ {envelope}
         /\ lastEvent' = [kind |-> "received", id |-> envelope.message.id]
    /\ UNCHANGED <<requestId, pendingRequests, timers, calls, outcomes, channel, toParent, store>>
    /\ UNCHANGED <<BRIDGE_PORT, main, bridge2, tool, handlers>>

DispatcherNext == Dispatch \/ DispatchForeign \/ ChildReceives

DispatcherSpec == DispatcherInit /\ [][DispatcherNext]_vars

----------------------------------------------------------------------------
(* The dispatcher's outbound side: requests are handled while process.send in *)
(* the parent sends, is missing, returns false or throws.                     *)

OutboundRequests ==
    {BridgeRequest(RequestIdOf(n), body.method, body.params) :
        n \in 0..(MaxCalls - 1),
        body \in {getColor(Present(Key1), Absent),
                  setColor(Present(Key1), Present(Color1), Absent),
                  setColor(Present(Key1), Present(Color2), Present(<<"Workspace">>)),
                  resetAllColors(Absent)}}

\* the parent's 'message' event with a request, whatever process.send does with the
\* response
DispatchOutbound ==
    /\ toChild = {}
    /\ \E request \in OutboundRequests, fault \in Faults, send \in ParentSendResults :
         LET out == messageHandler(request, store, fault, send)
         IN  /\ store' = out.store
             /\ toChild' = toChild \cup out.sent
             /\ lastEvent' = [kind |-> "outbound", request |-> request, fault |-> fault,
                              send |-> send.kind,
                              handled |-> out.handled, raised |-> out.raised,
                              logged |-> out.logged, after |-> out.store]
    /\ UNCHANGED <<requestId, pendingRequests, timers, calls, outcomes, channel, toParent>>
    /\ UNCHANGED <<BRIDGE_PORT, main, bridge2, tool, handlers>>

OutboundNext == DispatchOutbound \/ ChildReceives

OutboundSpec == DispatcherInit /\ [][OutboundNext]_vars

\* the extension calls handleRequest of src/bridge/server.ts with a request
ServerTsHandle ==
    /\ \E request \in DispatcherRequests, fault \in Faults :
         LET done == ServerTs_handleRequest(request, store, fault)
         IN  /\ store' = done.store
             /\ lastEvent' = [kind |-> "handle", request |-> request, fault |-> fault,
                              done |-> done, before |-> store]
    /\ UNCHANGED <<requestId, pendingRequests, timers, calls, outcomes, channel, toParent,
                   toChild>>
    /\ UNCHANGED <<BRIDGE_PORT, main, bridge2, tool, handlers>>

ServerTsSpec == DispatcherInit /\ [][ServerTsHandle]_vars

----------------------------------------------------------------------------
(* The bridge end to end: the correlator's requests travel to the dispatcher, *)
(* whose responses travel back.                                               *)

SystemCalls == {getColor(Present(Key1), Absent), setColor(Present(Key1), Present(Color1), Absent)}

\* a typed wrapper is called; process.send puts the request on the channel
SysCall ==
    /\ requestId < MaxCalls
    /\ \E c \in SystemCalls, send \in SendResults :
         /\ call(c.method, c.params, BRIDGE_REQUEST_TIMEOUT_MS, send)
         /\ toParent' =
              IF send.kind = "sent"
              THEN toParent \cup {BridgeRequest(RequestIdOf(requestId), c.method, c.params)}
              ELSE toParent
         /\ lastEvent' = [kind |-> "call", id |-> RequestIdOf(requestId), send |-> send.kind]
    /\ UNCHANGED <<toChild, store>>
    /\ UNCHANGED <<BRIDGE_PORT, main, bridge2, tool, handlers>>

\* the parent's 'message' event: messageHandler runs and sends the response
SysDispatch ==
    /\ channel = "open"
    /\ \E request \in toParent, fault \in Faults :
         LET out == messageHandler(request, store, fault, SendsResponse)
         IN  /\ toParent' = toParent \ {request}
             /\ store' = out.store
             /\ toChild' = toChild \cup out.sent
             /\ lastEvent' = [kind |-> "dispatch", id |-> request.id, fault |-> fault]
    /\ UNCHANGED <<requestId, pendingRequests, timers, calls, outcomes, channel>>
    /\ UNCHANGED <<BRIDGE_PORT, main, bridge2, tool, handlers>>

\* the child's 'message' event with a response of the dispatcher
SysDeliver ==
    /\ channel \in {"open", "closing"}
    /\ \E envelope \in toChild :
         /\ MessageListener(envelope.message)
         /\ toChild' = toChild \ {envelope}
         /\ lastEvent' = [kind |-> "deliver", id |-> envelope.message.id,
                          threw |-> envelope.threw, thrown |-> envelope.thrown]
    /\ UNCHANGED <<requestId, calls, channel, toParent, store>>
    /\ UNCHANGED <<BRIDGE_PORT, main, bridge2, tool, handlers>>

SysTimeout ==
    /\ \E id \in timers :
         /\ TimeoutHandler(id)
         /\ lastEvent' = [kind |-> "timeout", id |-> id]
    /\ UNCHANGED <<requestId, calls, channel, toParent, toChild, store>>
    /\ UNCHANGED <<BRIDGE_PORT, main, bridge2, tool, handlers>>

SysChannelClose ==
    /\ channel = "open"
    /\ channel' = "closing"
    /\ lastEvent' = [kind |-> "close"]
    /\ UNCHANGED <<requestId, pendingRequests, timers, calls, outcomes, toParent, toChild, store>>
    /\ UNCHANGED <<BRIDGE_PORT, main, bridge2, tool, handlers>>

SysDisconnect ==
    /\ channel = "closing"
    /\ channel' = "closed"
    /\ cleanup
    /\ lastEvent' = [kind |-> "disconnect"]
    /\ UNCHANGED <<requestId, calls, toParent, toChild, store>>
    /\ UNCHANGED <<BRIDGE_PORT, main, bridge2, tool, handlers>>

SystemNext ==
    SysCall \/ SysDispatch \/ SysDeliver \/ SysTimeout \/ SysChannelClose \/ SysDisconnect

SystemSpec == DispatcherInit /\ [][SystemNext]_vars

----------------------------------------------------------------------------
(* The bridge used as the MCP tools use it: one typed wrapper at a time, each  *)
(* awaited before the next is called, no tier given, the channel staying open *)
(* and the parent answering before the timer fires.                           *)

MaxSequentialCalls == 3

SequentialCalls ==
    {getCurrentColors(Absent),
     getColor(Present(Key1), Absent),
     getColor(Absent, Absent),
     setColor(Present(Key1), Present(Color1), Absent),
     setColors(Present(Key1 :> Color2), Absent),
     resetColor(Present(Key1), Absent),
     resetAllColors(Absent)}

\* await bridge.<wrapper>(...): the previous call has settled
SeqCall ==
    /\ requestId < MaxSequentialCalls
    /\ \A id \in DOMAIN outcomes : outcomes[id] # <<>>
    /\ \E c \in SequentialCalls, send \in SendResults :
         /\ call(c.method, c.params, BRIDGE_REQUEST_TIMEOUT_MS, send)
         /\ toParent' =
              IF send.kind = "sent"
              THEN toParent \cup {BridgeRequest(RequestIdOf(requestId), c.method, c.params)}
              ELSE toParent
         /\ lastEvent' = [kind |-> "call", id |-> RequestIdOf(requestId), send |-> send.kind]
    /\ UNCHANGED <<toChild, store>>
    /\ UNCHANGED <<BRIDGE_PORT, main, bridge2, tool, handlers>>

SequentialNext == SeqCall \/ SysDispatch \/ SysDeliver

SequentialSpec == DispatcherInit /\ [][SequentialNext]_vars

----------------------------------------------------------------------------
(* Startup of the standalone server: main() creates the bridge client, sets   *)
(* up the MCP server, connects the transport and from then on serves tool     *)
(* calls; a rejection of main() is fatal (process.exit(1)).                   *)

StartupInit ==
    /\ requestId = 0
    /\ pendingRequests = EmptyMap
    /\ timers = {}
    /\ calls = EmptyMap
    /\ outcomes = EmptyMap
    /\ channel = "open"
    /\ toParent = {}
    /\ toChild = {}
    /\ store = [t \in Tiers |-> EmptyMap]
    /\ BRIDGE_PORT \in {Absent, Present(<<"43117">>)}
    /\ main = "start"
    /\ bridge2 = NewBridgeClient
    /\ tool = NoToolCall
    /\ handlers = <<>>
    /\ lastEvent = [kind |-> "init"]

\* const bridge = new BridgeClient(): the constructor registers the listeners and
\* reads nothing from the environment
MainCreatesBridge ==
    /\ main = "start"
    /\ main' = "bridgeCreated"
    /\ lastEvent' = [kind |-> "main"]
    /\ UNCHANGED <<requestId, pendingRequests, timers, calls, outcomes, channel, toParent,
                   toChild, store, BRIDGE_PORT, bridge2, tool, handlers>>

\* the Server is created, the handlers are set and `await server.connect(transport)`
\* completes; when it rejects, main().catch logs and exits
MainConnects ==
    /\ main = "bridgeCreated"
    /\ \E connected \in BOOLEAN :
         /\ main' = IF connected THEN "serving" ELSE "exited"
         /\ lastEvent' = [kind |-> "main"]
    /\ UNCHANGED <<requestId, pendingRequests, timers, calls, outcomes, channel, toParent,
                   toChild, store, BRIDGE_PORT, bridge2, tool, handlers>>

\* a tool call is served: its handler awaits a typed wrapper of the bridge
ToolCall ==
    /\ main = "serving"
    /\ SeqCall

StartupNext == MainCreatesBridge \/ MainConnects \/ ToolCall \/ SysDispatch \/ SysDeliver

StartupSpec == StartupInit /\ [][StartupNext]_vars

\* timers that are armed eventually fire
FairSpec == Spec /\ WF_vars(Timeout)

----------------------------------------------------------------------------
(* The CallTool handler of the standalone server: the tools setColor and
   getColorsInGroup.  The handler is async; it runs to its first await of a bridge
   call, and resumes in the microtask that follows the settling of that call, before
   any other event of the process is handled. *)

\* colorGroups[groupId]: colorGroups is the object parsed from color-groups.json.  A
\* group of the file is found; the name of a member every object inherits
\* ('constructor') finds that member, which has no `keys`; any other name finds
\* nothing
KnownGroups == {<<"editor">>}

ColorGroupsLookup(groupId) ==
    CASE groupId \in KnownGroups -> Present([keys |-> Present(<<Key1>>)])
      [] groupId = <<"constructor">> -> Present([keys |-> Absent])
      [] OTHER -> Absent

\* request.params of a tool call: the tool's name, its arguments if any, and for
\* setColor what colorManipulator.isValidColor(args.value) answers
ToolCalls ==
    {[name |-> "setColor", args |-> Absent, valid |-> FALSE]}
    \cup {[name |-> "setColor",
           args |-> Present([key |-> Present(Key1), value |-> Present(Color2)]),
           valid |-> v] : v \in BOOLEAN}
    \cup {[name |-> "getColorsInGroup", args |-> Absent, valid |-> FALSE]}
    \cup {[name |-> "getColorsInGroup", args |-> Present([group |-> g]), valid |-> FALSE] :
           g \in {<<"editor">>, <<"nosuchgroup">>, <<"constructor">>}}

\* await bridge.<wrapper>(...): the call is issued and the handler waits for it
BridgeCall(c) ==
    \E send \in SendResults :
        /\ call(c.method, c.params, BRIDGE_REQUEST_TIMEOUT_MS, send)
        /\ toParent' =
             IF send.kind = "sent"
             THEN toParent \cup {BridgeRequest(RequestIdOf(requestId), c.method, c.params)}
             ELSE toParent

\* the handler throws without having called the bridge
ToolThrows(t) ==
    /\ tool' = [pc |-> "threw", name |-> t.name, args |-> t.args, awaiting |-> Absent]
    /\ UNCHANGED <<requestId, pendingRequests, timers, calls, outcomes, channel, toParent>>

\* the handler waits at `await bridge.<wrapper>(...)` for the call just issued
ToolAwaits(t, pc) ==
    tool' = [pc |-> pc, name |-> t.name, args |-> t.args,
             awaiting |-> Present(RequestIdOf(requestId))]

\* the call the handler awaits has settled: its continuation is the next thing to run
Runnable ==
    /\ tool.pc \in {"awaitGetCurrentColors", "awaitGetColor", "awaitSetColor"}
    /\ outcomes[tool.awaiting[1]] # <<>>

\* a tool call arrives: the handler runs up to its first await, or throws
ToolStarts ==
    /\ tool.pc \in {"idle", "returned", "threw"}
    /\ requestId + 2 <= MaxCalls
    /\ \E t \in ToolCalls :
         /\ CASE t.name = "setColor" ->
                   IF t.args = Absent THEN ToolThrows(t)
                   ELSE IF ~t.valid THEN ToolThrows(t)
                   ELSE /\ BridgeCall(getColor(t.args[1].key, Absent))
                        /\ ToolAwaits(t, "awaitGetColor")
              [] t.name = "getColorsInGroup" ->
                   IF t.args = Absent THEN ToolThrows(t)
                   ELSE IF ColorGroupsLookup(t.args[1].group) = Absent THEN ToolThrows(t)
                   ELSE /\ BridgeCall(getCurrentColors(Absent))
                        /\ ToolAwaits(t, "awaitGetCurrentColors")
         /\ lastEvent' = [kind |-> "toolStarts", name |-> t.name, args |-> t.args,
                          valid |-> t.valid]
    /\ UNCHANGED <<toChild, store, BRIDGE_PORT, main, bridge2, handlers>>

\* the awaited call has settled and the handler goes on: a rejection is thrown out of
\* the handler, a result lets it run to its next await or to its end
ToolResumes ==
    /\ Runnable
    /\ LET settled == outcomes[tool.awaiting[1]][1] IN
       IF settled.kind = "reject"
       THEN ToolThrows(tool)
       ELSE CASE tool.pc = "awaitGetColor" ->
                   /\ BridgeCall(setColor(tool.args[1].key, tool.args[1].value, Absent))
                   /\ ToolAwaits(tool, "awaitSetColor")
              [] tool.pc = "awaitSetColor" ->
                   /\ tool' = [tool EXCEPT !.pc = "returned"]
                   /\ UNCHANGED <<requestId, pendingRequests, timers, calls, outcomes,
                                  channel, toParent>>
              [] tool.pc = "awaitGetCurrentColors" ->
                   IF \/ ColorGroupsLookup(tool.args[1].group)[1].keys = Absent
                      \/ settled.value = Absent
                   THEN ToolThrows(tool)
                   ELSE /\ tool' = [tool EXCEPT !.pc = "returned"]
                        /\ UNCHANGED <<requestId, pendingRequests, timers, calls, outcomes,
                                       channel, toParent>>
    /\ lastEvent' = [kind |-> "toolResumes", was |-> tool.pc, after |-> lastEvent]
    /\ UNCHANGED <<toChild, store, BRIDGE_PORT, main, bridge2, handlers>>

\* the events of the two processes, handled once no continuation is waiting to run
ToolEvent ==
    /\ ~Runnable
    /\ (SysDispatch \/ SysDeliver \/ SysTimeout \/ SysChannelClose \/ SysDisconnect)

ToolNext == ToolStarts \/ ToolResumes \/ ToolEvent

ToolSpec == DispatcherInit /\ [][ToolNext]_vars

----------------------------------------------------------------------------
(* The dispatcher with several requests in hand.  messageHandler is async: it runs
   up to `await this.handleRequest(message)`, where callMethod has been entered and
   awaits the store, and the rest (the store's effect, the response, process.send) runs
   in a later turn.  Between the two, other messages start other invocations. *)

\* what arrives: requests with the same and with different ids, reads and writes, and
\* messages that are no requests
ConcurrentMessages ==
    {BridgeRequest(RequestIdOf(n), body.method, body.params) :
        n \in 0..1,
        body \in {getColor(Present(Key1), Absent),
                  setColor(Present(Key1), Present(Color1), Absent),
                  setColor(Absent, Present(Color2), Absent)}}
    \cup ForeignMessages

\* how many invocations have run to their end
Finished == Cardinality({h \in DOMAIN handlers : handlers[h].pc = "done"})

\* the parent's 'message' event: an invocation of messageHandler starts, and unless the
\* guard drops the message, enters the executor
HandlerStarts ==
    /\ Len(handlers) < MaxCalls
    /\ \E message \in ConcurrentMessages :
         LET entered == messageHandler(message, store, Absent, SendsResponse).handled IN
         /\ handlers' = Append(handlers,
                [request |-> message,
                 pc |-> IF entered THEN "awaiting" ELSE "done",
                 invoked |-> IF entered THEN 1 ELSE 0,
                 sent |-> 0,
                 order |-> IF entered THEN 0 ELSE Finished + 1])
         /\ lastEvent' = [kind |-> "handlerStarts", h |-> Len(handlers) + 1]
    /\ UNCHANGED <<requestId, pendingRequests, timers, calls, outcomes, channel, toParent,
                   toChild, store, BRIDGE_PORT, main, bridge2, tool>>

\* an awaiting invocation resumes: the store's operation settles, the response is
\* built and handed to process.send
HandlerCompletes ==
    /\ toChild = {}
    /\ \E h \in DOMAIN handlers, fault \in Faults, send \in ParentSendResults :
         /\ handlers[h].pc = "awaiting"
         /\ LET out == messageHandler(handlers[h].request, store, fault, send) IN
            /\ store' = out.store
            /\ toChild' = out.sent
            /\ handlers' = [handlers EXCEPT ![h].pc = "done",
                                            ![h].sent = @ + Cardinality(out.sent),
                                            ![h].order = Finished + 1]
            /\ lastEvent' = [kind |-> "handlerCompletes", h |-> h]
    /\ UNCHANGED <<requestId, pendingRequests, timers, calls, outcomes, channel, toParent,
                   BRIDGE_PORT, main, bridge2, tool>>

ConcurrentNext == HandlerStarts \/ HandlerCompletes \/ ChildReceives

ConcurrentSpec == DispatcherInit /\ [][ConcurrentNext]_vars

----------------------------------------------------------------------------
(* Two BridgeClient instances in one process.  Each constructor registers its own
   listener on process 'message'; each instance has its own requestId and its own
   pendingRequests; both send on the same process.send. *)

\* call of an instance, over that instance's fields: the id comes from the
\* instance's own counter
InstanceCall(self, send) ==
    LET id == RequestIdOf(self.requestId)
        timer == id
        armed == setTimeout(self.timers, timer)
        stored == MapSet(self.pendingRequests, id, [timer |-> timer, cancelled |-> FALSE])
        issued == MapSet(self.outcomes, id, <<>>)
    IN  IF send.kind = "sent"
        THEN [requestId |-> self.requestId + 1, pendingRequests |-> stored,
              timers |-> armed, outcomes |-> issued]
        ELSE [requestId |-> self.requestId + 1,
              pendingRequests |-> MapDelete(stored, id),
              timers |-> clearTimeout(armed, timer),
              outcomes |-> Invoke(issued, id, Rejected("send", SendFailureMessage(send)))]

\* the 'message' listener of an instance, over that instance's fields
InstanceListener(self, message) ==
    IF ~isBridgeResponse(message) THEN self
    ELSE LET id == message.id[1] IN
         IF ~MapHas(self.pendingRequests, id) THEN self
         ELSE LET pending == self.pendingRequests[id] IN
              IF pending.cancelled THEN self
              ELSE [requestId |-> self.requestId,
                    pendingRequests |-> MapDelete(self.pendingRequests, id),
                    timers |-> clearTimeout(self.timers, pending.timer),
                    outcomes |->
                        IF ~Falsy(message.error)
                        THEN Invoke(self.outcomes, id, Rejected("listener", message.error[1]))
                        ELSE Invoke(self.outcomes, id, Resolved("listener", message.result))]

\* a request on the channel, with the instance that sent it
IssuedBy(issuer, request) ==
    [id |-> request.id, method |-> request.method, params |-> request.params,
     issuer |-> issuer]

\* the message the parent receives
OnTheWire(issued) == [id |-> issued.id, method |-> issued.method, params |-> issued.params]

\* a typed wrapper of the first instance is called
FirstInstanceCall ==
    /\ requestId < MaxCalls
    /\ \E c \in SystemCalls, send \in SendResults :
         /\ call(c.method, c.params, BRIDGE_REQUEST_TIMEOUT_MS, send)
         /\ toParent' =
              IF send.kind = "sent"
              THEN toParent \cup
                     {IssuedBy("first", BridgeRequest(RequestIdOf(requestId), c.method, c.params))}
              ELSE toParent
         /\ lastEvent' = [kind |-> "call", id |-> RequestIdOf(requestId), send |-> send.kind]
    /\ UNCHANGED <<toChild, store, BRIDGE_PORT, main, bridge2, tool, handlers>>

\* a typed wrapper of the second instance is called
SecondInstanceCall ==
    /\ bridge2.requestId < MaxCalls
    /\ \E c \in SystemCalls, send \in SendResults :
         /\ bridge2' = InstanceCall(bridge2, send)
         /\ toParent' =
              IF send.kind = "sent"
              THEN toParent \cup
                     {IssuedBy("second",
                               BridgeRequest(RequestIdOf(bridge2.requestId), c.method, c.params))}
              ELSE toParent
         /\ lastEvent' = [kind |-> "call2", id |-> RequestIdOf(bridge2.requestId),
                          send |-> send.kind]
    /\ UNCHANGED <<requestId, pendingRequests, timers, calls, outcomes, channel, toChild,
                   store, BRIDGE_PORT, main, tool, handlers>>

\* the parent handles one request and sends its response
TwoDispatch ==
    /\ toChild = {}
    /\ \E issued \in toParent :
         LET out == messageHandler(OnTheWire(issued), store, Absent, SendsResponse)
         IN  /\ toParent' = toParent \ {issued}
             /\ store' = out.store
             /\ toChild' = {[message |-> e.message, issuer |-> issued.issuer] : e \in out.sent}
             /\ lastEvent' = [kind |-> "dispatch", id |-> issued.id]
    /\ UNCHANGED <<requestId, pendingRequests, timers, calls, outcomes, channel,
                   BRIDGE_PORT, main, bridge2, tool, handlers>>

\* the child's 'message' event: the listeners of both instances run, in the order
\* they were registered
TwoDeliver ==
    /\ \E envelope \in toChild :
         /\ MessageListener(envelope.message)
         /\ bridge2' = InstanceListener(bridge2, envelope.message)
         /\ toChild' = toChild \ {envelope}
         /\ lastEvent' = [kind |-> "deliverBoth", id |-> envelope.message.id,
                          issuer |-> envelope.issuer]
    /\ UNCHANGED <<requestId, calls, channel, toParent, store, BRIDGE_PORT, main, tool, handlers>>

TwoClientsNext == FirstInstanceCall \/ SecondInstanceCall \/ TwoDispatch \/ TwoDeliver

TwoClientsSpec == DispatcherInit /\ [][TwoClientsNext]_vars

----------------------------------------------------------------------------
(* Claims about the correlator *)

Count(log, kind) == Cardinality({i \in 1..Len(log) : log[i].kind = kind})

Settled(id) == id \in DOMAIN outcomes /\ outcomes[id] # <<>>

SettledBy(id, by) == Settled(id) /\ outcomes[id][1].by = by

\* C1: for every call, whatever the order of its response and its timer, the success
\* and the failure continuation are never both invoked and neither more than once
C1_AtMostOneContinuation ==
    \A id \in DOMAIN outcomes :
        /\ Count(outcomes[id], "resolve") <= 1
        /\ Count(outcomes[id], "reject") <= 1
        /\ ~(Count(outcomes[id], "resolve") >= 1 /\ Count(outcomes[id], "reject") >= 1)

\* a response for a call arrived after that call's timer had fired and rejected it
C1_Witness ==
    /\ lastEvent.kind = "message"
    /\ lastEvent.id # Absent
    /\ SettledBy(lastEvent.id[1], "timeout")

\* C2: a call settled by one of response, timer, disconnect/cleanup is never acted on
\* again by any path: once a continuation was invoked, no step invokes another
C2_SettledOnce ==
    [][\A id \in DOMAIN outcomes : outcomes[id] # <<>> => outcomes'[id] = outcomes[id]]_vars

\* a response for a call arrived after the disconnect handler had rejected it
C2_Witness ==
    /\ lastEvent.kind = "message"
    /\ lastEvent.id # Absent
    /\ SettledBy(lastEvent.id[1], "cleanup")
    /\ channel = "closed"

\* C3: every call issued eventually settles
C3_EventuallySettles ==
    \A id \in CallIds : (id \in DOMAIN calls) ~> Settled(id)

\* a call that got no response and saw no disconnect was settled by its timer
C3_Witness ==
    /\ channel = "open"
    /\ \E id \in DOMAIN outcomes : SettledBy(id, "timeout")

\* C4: a well-formed response whose id matches no pending record invokes no
\* continuation and leaves the pending table and the timers unchanged
C4_UnknownIdDropped ==
    [][(/\ lastEvent'.kind = "message"
        /\ lastEvent'.id # Absent
        /\ lastEvent'.id[1] \notin DOMAIN pendingRequests)
       => UNCHANGED <<pendingRequests, timers, outcomes>>]_vars

\* a response for an id never issued arrived while another call was pending
C4_Witness ==
    /\ lastEvent.kind = "message"
    /\ lastEvent.id # Absent
    /\ lastEvent.id[1] \notin DOMAIN calls
    /\ DOMAIN pendingRequests # {}

\* C5: a call whose send fails is rejected in the step that issued it, and that step
\* leaves the pending table (and the timers) exactly as it found them
C5_FailedSendLeavesNothing ==
    [][(lastEvent'.kind = "call" /\ lastEvent'.send # "sent")
       => /\ pendingRequests' = pendingRequests
          /\ timers' = timers
          /\ lastEvent'.id \notin DOMAIN pendingRequests'
          /\ Len(outcomes'[lastEvent'.id]) = 1
          /\ outcomes'[lastEvent'.id][1].kind = "reject"]_vars

\* a send returned false while an earlier call was pending
C5_Witness ==
    /\ lastEvent.kind = "call"
    /\ lastEvent.send = "false"
    /\ DOMAIN pendingRequests # {}

IsTimeoutError(entry) ==
    /\ entry.kind = "reject"
    /\ entry.message # <<>>
    /\ entry.message[1] = "Bridge request timeout: "

\* C6: when the timer of a pending call fires, the call is rejected with a timeout
\* error naming its method and its timeout and its record is removed; and a timeout
\* error is delivered to a call only by the firing of that call's armed timer
C6_TimeoutNamesMethod ==
    [][/\ (lastEvent'.kind = "timeout" /\ lastEvent'.id \in DOMAIN pendingRequests)
          => LET id == lastEvent'.id IN
             /\ Len(outcomes'[id]) = 1
             /\ IsTimeoutError(outcomes'[id][1])
             /\ Names(outcomes'[id][1].message, calls[id].method[1])
             /\ Names(outcomes'[id][1].message, ToString(calls[id].timeout))
             /\ id \notin DOMAIN pendingRequests'
       /\ \A id \in DOMAIN outcomes' :
            (/\ outcomes'[id] # <<>>
             /\ IsTimeoutError(outcomes'[id][Len(outcomes'[id])])
             /\ (id \notin DOMAIN outcomes \/ outcomes[id] # outcomes'[id]))
            => (lastEvent'.kind = "timeout" /\ lastEvent'.id = id /\ id \in timers)]_vars

\* the short timer of a setColor call, to which no response came, has fired
C6_Witness ==
    /\ lastEvent.kind = "timeout"
    /\ SettledBy(lastEvent.id, "timeout")
    /\ calls[lastEvent.id].timeout = ShortTimeoutMs
    /\ channel = "open"

\* C7: the disconnect handler invokes the failure continuation of every pending call
\* and leaves the pending table empty
C7_DisconnectFailsAll ==
    [][lastEvent'.kind = "disconnect"
       => /\ \A id \in DOMAIN pendingRequests :
               /\ Count(outcomes'[id], "reject") = Count(outcomes[id], "reject") + 1
               /\ Count(outcomes'[id], "resolve") = Count(outcomes[id], "resolve")
          /\ DOMAIN pendingRequests' = {}]_vars

\* the peer disconnected with two calls pending
C7_Witness ==
    /\ lastEvent.kind = "disconnect"
    /\ Cardinality({id \in DOMAIN outcomes : SettledBy(id, "cleanup")}) >= 2

\* C25: the error delivered to the calls failed by the disconnect handler is not the
\* error that cleanup() called at shutdown delivers, so a caller can tell the two apart
C25_DisconnectErrorDistinct ==
    [][lastEvent'.kind = "disconnect"
       => \A id \in DOMAIN pendingRequests :
              outcomes'[id][Len(outcomes'[id])].message # CleanupMessage]_vars

\* C27: a response that arrives after its call was failed by its timer, by the
\* disconnect handler or by cleanup() invokes no continuation, of that call or of any
\* other, and leaves the pending table unchanged
C27_LateResponseDropped ==
    [][(/\ lastEvent'.kind = "message"
        /\ lastEvent'.id # Absent
        /\ (SettledBy(lastEvent'.id[1], "timeout") \/ SettledBy(lastEvent'.id[1], "cleanup")))
       => UNCHANGED <<pendingRequests, outcomes>>]_vars

\* the response of a timed-out call arrived while a call issued after it was pending
C27_Witness ==
    /\ lastEvent.kind = "message"
    /\ lastEvent.id = Present(RequestIdOf(0))
    /\ SettledBy(RequestIdOf(0), "timeout")
    /\ MapHas(pendingRequests, RequestIdOf(1))

\* C18: a message on the correlator that is no well-formed response is dropped: no
\* continuation is invoked, and the pending table and the timers are unchanged
C18_ForeignResponseDropped ==
    [][(lastEvent'.kind = "message" /\ lastEvent'.id = Absent)
          => UNCHANGED <<pendingRequests, timers, outcomes>>]_vars

\* a message without an id arrived while a call was pending with its timer armed
C18_Witness ==
    /\ lastEvent.kind = "message"
    /\ lastEvent.id = Absent
    /\ DOMAIN pendingRequests # {}
    /\ timers # {}

\* the calls that were sent and have not settled (a call whose send fails is rejected
\* within call itself)
Unsettled == {id \in DOMAIN outcomes : outcomes[id] = <<>>}

\* C20: between handlers the pending table holds exactly the ids of the calls that were
\* sent and have not settled, getPendingRequestCount() is their number, and it is 0
\* once every issued call has settled
C20_PendingTableExact ==
    /\ DOMAIN pendingRequests = Unsettled
    /\ getPendingRequestCount = Cardinality(Unsettled)
    /\ (\A id \in DOMAIN calls : Settled(id)) => getPendingRequestCount = 0

\* one call was answered and another is still pending
C20_Witness ==
    /\ requestId = 2
    /\ getPendingRequestCount = 1
    /\ \E id \in DOMAIN outcomes : SettledBy(id, "listener")

\* C30: between handlers a timer is armed for an id exactly when the pending table
\* holds a record for that id, the record holds that timer, and no settled call,
\* however it was settled, has an armed timer
C30_TimerIffPending ==
    /\ timers = DOMAIN pendingRequests
    /\ \A id \in DOMAIN pendingRequests : pendingRequests[id].timer = id
    /\ \A id \in DOMAIN outcomes : Settled(id) => id \notin timers

\* a call was settled by its response while the timer of another call was armed
C30_Witness ==
    /\ \E id \in DOMAIN outcomes : SettledBy(id, "listener") /\ id \notin timers
    /\ \E id \in timers : MapHas(pendingRequests, id) /\ ~Settled(id)

\* the call a step settles, if any: the call a response names, the call whose timer
\* fired, the call whose send failed
SettledInStep(event) ==
    CASE event.kind = "message" -> IF event.id = Absent THEN {} ELSE {event.id[1]}
      [] event.kind = "timeout" -> {event.id}
      [] event.kind = "call" -> {event.id}
      [] OTHER -> {}

\* C31: settling one call, by its response, by its timer or by a failed send, leaves
\* every other pending record with its timer as it was and invokes no continuation of
\* any other call
C31_SettlingLeavesOthers ==
    [][(lastEvent'.kind \in {"message", "timeout", "call"})
       => /\ \A id \in DOMAIN pendingRequests \ SettledInStep(lastEvent') :
               /\ MapHas(pendingRequests', id)
               /\ pendingRequests'[id] = pendingRequests[id]
               /\ id \in timers'
          /\ \A id \in DOMAIN outcomes \ SettledInStep(lastEvent') :
               outcomes'[id] = outcomes[id]
          /\ timers \ timers' \subseteq SettledInStep(lastEvent')]_vars

\* the timer of the second call fired while the first call was pending, and the first
\* call is still pending with its timer armed
C31_Witness ==
    /\ lastEvent.kind = "timeout"
    /\ lastEvent.id = RequestIdOf(1)
    /\ SettledBy(RequestIdOf(1), "timeout")
    /\ MapHas(pendingRequests, RequestIdOf(0))
    /\ RequestIdOf(0) \in timers
    /\ outcomes[RequestIdOf(0)] = <<>>

\* cleanup() has rejected a call
CleanedUp == \E id \in DOMAIN outcomes : SettledBy(id, "cleanup")

\* C37: cleanup() is idempotent and not terminal: it leaves the pending table empty and
\* touches no call that is not pending, so a second cleanup() with no call in between
\* invokes no continuation; and a call issued after cleanup() is tracked, is resolved
\* by its response and is rejected by its timer like any other
C37_CleanupIdempotentNotTerminal ==
    [][/\ (lastEvent'.kind = "cleanup")
          => /\ DOMAIN pendingRequests' = {}
             /\ \A id \in DOMAIN outcomes \ DOMAIN pendingRequests :
                  outcomes'[id] = outcomes[id]
             /\ (lastEvent.kind = "cleanup" \/ DOMAIN pendingRequests = {})
                  => UNCHANGED <<outcomes, pendingRequests, timers>>
       /\ (CleanedUp /\ lastEvent'.kind = "call" /\ lastEvent'.send = "sent")
          => /\ MapHas(pendingRequests', lastEvent'.id)
             /\ lastEvent'.id \in timers'
             /\ outcomes'[lastEvent'.id] = <<>>
       /\ (/\ CleanedUp
           /\ lastEvent'.kind = "message"
           /\ lastEvent'.id # Absent
           /\ MapHas(pendingRequests, lastEvent'.id[1]))
          => /\ Len(outcomes'[lastEvent'.id[1]]) = 1
             /\ outcomes'[lastEvent'.id[1]][1].by = "listener"
             /\ ~MapHas(pendingRequests', lastEvent'.id[1])
       /\ (/\ CleanedUp
           /\ lastEvent'.kind = "timeout"
           /\ MapHas(pendingRequests, lastEvent'.id))
          => /\ Len(outcomes'[lastEvent'.id]) = 1
             /\ IsTimeoutError(outcomes'[lastEvent'.id][1])
             /\ ~MapHas(pendingRequests', lastEvent'.id)]_vars

\* the first call was rejected by cleanup(), and the call issued after it was resolved
\* by its response
C37_Witness ==
    /\ channel = "open"
    /\ SettledBy(RequestIdOf(0), "cleanup")
    /\ SettledBy(RequestIdOf(1), "listener")
    /\ outcomes[RequestIdOf(1)][1].kind = "resolve"
    /\ DOMAIN pendingRequests = {}

\* no record of the pending table is marked cancelled
NoneCancelled(table) == \A id \in DOMAIN table : ~table[id].cancelled

\* C38: whenever a handler (message listener, timeout handler, disconnect handler,
\* cleanup) starts, every record of the pending table has cancelled = false; so the
\* listener and the timeout handler never take their 'cancelled' branch: a response or
\* a timer that finds its record settles the call
C38_CancelledNeverSeen ==
    [][/\ NoneCancelled(pendingRequests)
       /\ NoneCancelled(pendingRequests')
       /\ (/\ lastEvent'.kind = "message"
           /\ lastEvent'.id # Absent
           /\ MapHas(pendingRequests, lastEvent'.id[1]))
          => /\ Len(outcomes'[lastEvent'.id[1]]) = Len(outcomes[lastEvent'.id[1]]) + 1
             /\ ~MapHas(pendingRequests', lastEvent'.id[1])
       /\ (lastEvent'.kind = "timeout" /\ MapHas(pendingRequests, lastEvent'.id))
          => /\ Len(outcomes'[lastEvent'.id]) = Len(outcomes[lastEvent'.id]) + 1
             /\ ~MapHas(pendingRequests', lastEvent'.id)]_vars

\* an error response has just rejected its call, and the record of another call is in
\* the table, not cancelled
C38_Witness ==
    /\ lastEvent.kind = "message"
    /\ lastEvent.id # Absent
    /\ SettledBy(lastEvent.id[1], "listener")
    /\ outcomes[lastEvent.id[1]][1].kind = "reject"
    /\ \E id \in DOMAIN pendingRequests : ~pendingRequests[id].cancelled

\* C21: a call issued once the channel has closed, before or after the disconnect
\* handler has run, is rejected within call with a send error, and has neither a
\* pending record nor a timer: it does not wait for its timeout
C21_CallAfterCloseFailsAtSend ==
    [][(lastEvent'.kind = "call" /\ channel \in {"closing", "closed"})
       => /\ Len(outcomes'[lastEvent'.id]) = 1
          /\ outcomes'[lastEvent'.id][1].kind = "reject"
          /\ outcomes'[lastEvent'.id][1].by = "send"
          /\ outcomes'[lastEvent'.id][1].message[1] \in
                {"Failed to send IPC message - channel may be closed",
                 "Exception sending IPC message: "}
          /\ lastEvent'.id \notin DOMAIN pendingRequests'
          /\ lastEvent'.id \notin timers']_vars

\* a call was issued after the channel closed and before the disconnect handler ran,
\* an earlier call still pending
C21_Witness ==
    /\ lastEvent.kind = "call"
    /\ channel = "closing"
    /\ SettledBy(lastEvent.id, "send")
    /\ DOMAIN pendingRequests # {}

\* C14: every call of a correlator is given an id no earlier call of that correlator
\* was given, whether the earlier calls failed at send, timed out, got a response or
\* were rejected by cleanup()
C14_FreshRequestId ==
    [][lastEvent'.kind = "call" => lastEvent'.id \notin DOMAIN calls]_vars

\* a call was issued after cleanup() had rejected the call before it
C14_Witness ==
    /\ lastEvent.kind = "call"
    /\ lastEvent.id = RequestIdOf(1)
    /\ SettledBy(RequestIdOf(0), "cleanup")

\* C19: whatever the order in which the responses of concurrently pending calls are
\* delivered, a response settles the call that bears its id, with the result or the
\* error it carries, and settles no other call
C19_SettledByOwnResponse ==
    [][lastEvent'.kind = "deliver" =>
          LET envelope == CHOOSE e \in toChild : e \notin toChild'
              id == envelope.message.id[1]
          IN  /\ \A other \in DOMAIN outcomes \ {id} : outcomes'[other] = outcomes[other]
              /\ IF MapHas(pendingRequests, id)
                 THEN \/ outcomes'[id] =
                           Append(outcomes[id], Resolved("listener", envelope.message.result))
                      \/ /\ envelope.message.error # Absent
                         /\ outcomes'[id] =
                              Append(outcomes[id],
                                     Rejected("listener", envelope.message.error[1]))
                 ELSE outcomes'[id] = outcomes[id]]_vars

\* the response of the call issued second was delivered first, the first call still
\* pending with its response on the way
C19_Witness ==
    /\ lastEvent.kind = "deliver"
    /\ lastEvent.id = Present(RequestIdOf(1))
    /\ SettledBy(RequestIdOf(1), "listener")
    /\ MapHas(pendingRequests, RequestIdOf(0))
    /\ \E envelope \in toChild : envelope.message.id = Present(RequestIdOf(0))

----------------------------------------------------------------------------
(* Claims about the dispatcher and the executor *)

\* C8: handleRequest always completes with a response bearing the request's id; when
\* the executor fails the response carries the failure's message as its error and no
\* result
C8_AlwaysResponds ==
    lastEvent.kind = "handle" =>
        /\ ~lastEvent.done.rejected
        /\ lastEvent.done.response.id = lastEvent.request.id
        /\ (lastEvent.fault # Absent /\ lastEvent.done.ops # <<>>)
              => /\ lastEvent.done.response.error = Present(lastEvent.fault[1].text)
                 /\ lastEvent.done.response.result = Absent
        /\ lastEvent.done.threw
              => /\ lastEvent.done.response.error # Absent
                 /\ lastEvent.done.response.result = Absent

\* a setColor request reached VSCodeConfig.setColor, which threw
C8_Witness ==
    /\ lastEvent.kind = "handle"
    /\ lastEvent.request.method = Present(<<"setColor">>)
    /\ lastEvent.request.id = Present(RequestIdOf(1))
    /\ lastEvent.fault = Present(NewError(<<"Unable to write to User Settings">>))
    /\ Len(lastEvent.done.ops) = 1 /\ lastEvent.done.ops[1].op = "setColor"

RequiredParams(method) ==
    CASE method = <<"getColor">> -> {"key"}
      [] method = <<"resetColor">> -> {"key"}
      [] method = <<"setColor">> -> {"key", "value"}
      [] method = <<"setColors">> -> {"colors"}
      [] OTHER -> {}

MissingParams(request) ==
    {p \in RequiredParams(request.method[1]) : request.params[p] = Absent}

\* C10: a request that leaves out a required parameter gets an error response naming
\* every parameter left out, no VSCodeConfig operation is invoked for it and the store
\* is as it was
C10_ValidationBeforeAction ==
    (lastEvent.kind = "handle" /\ MissingParams(lastEvent.request) # {}) =>
        /\ lastEvent.done.response.error # Absent
        /\ \A p \in MissingParams(lastEvent.request) :
               Names(lastEvent.done.response.error[1], p)
        /\ lastEvent.done.response.result = Absent
        /\ lastEvent.done.ops = <<>>
        /\ store = lastEvent.before

\* setColor came with a key and no value while the store held a customization
C10_Witness ==
    /\ lastEvent.kind = "handle"
    /\ lastEvent.request.method = Present(<<"setColor">>)
    /\ lastEvent.request.params.key = Present(Key1)
    /\ lastEvent.request.params.value = Absent
    /\ \E t \in Tiers : store[t] # EmptyMap

----------------------------------------------------------------------------
(* Claims about the bridge end to end *)

\* C9: whenever the executor failed for a request and the response reaches the
\* correlator while the call is pending, the call's failure continuation (and not its
\* success continuation) is invoked with an error carrying the executor's message
C9_RemoteErrorRejects ==
    [][(/\ lastEvent'.kind = "deliver"
        /\ lastEvent'.threw
        /\ lastEvent'.id[1] \in DOMAIN pendingRequests)
       => outcomes'[lastEvent'.id[1]] =
             <<Rejected("listener", ErrorMessageOf(lastEvent'.thrown))>>]_vars

\* C17: a message on the dispatcher that is no well-formed request is dropped: the
\* executor is not invoked and the store is as it was, nothing is sent, and a request
\* that arrives next is handled and answered
C17_ForeignMessageDropped ==
    [][/\ lastEvent'.kind = "foreign"
          => /\ ~lastEvent'.handled
             /\ store' = store
             /\ toChild' = toChild
       /\ (lastEvent.kind = "foreign" /\ lastEvent'.kind = "handle")
          => \E envelope \in toChild' \ toChild :
                envelope.message.id = lastEvent'.request.id]_vars

\* a setColor message without an id arrived while the store held a customization
C17_Witness ==
    /\ lastEvent.kind = "foreign"
    /\ lastEvent.message.method = Present(<<"setColor">>)
    /\ store[vscodeConfigurationTarget.Global] = (Key1 :> Color1)
    /\ toChild = {}

----------------------------------------------------------------------------
(* Claims about tiers *)

WriteMethods == {<<"setColor">>, <<"setColors">>, <<"resetColor">>, <<"resetAllColors">>}

\* what a tier holds once the request's mutation is applied to it
TierAfterWrite(request, tier) ==
    CASE request.method[1] = <<"setColor">> ->
           MapSet(tier, request.params.key[1], request.params.value[1])
      [] request.method[1] = <<"setColors">> ->
           [k \in DOMAIN tier \cup DOMAIN request.params.colors[1] |->
               IF k \in DOMAIN request.params.colors[1]
               THEN request.params.colors[1][k] ELSE tier[k]]
      [] request.method[1] = <<"resetColor">> -> MapDelete(tier, request.params.key[1])
      [] request.method[1] = <<"resetAllColors">> -> EmptyMap

\* the request handled last was a write that was handed no tier but `t`, changed no
\* other tier and, when it did not fail, left `t` as the mutation makes it
WroteExactly(t) ==
    /\ \A i \in 1..Len(lastEvent.done.ops) : lastEvent.done.ops[i].target \in {Absent, Present(t)}
    /\ \A other \in Tiers \ {t} : store[other] = lastEvent.before[other]
    /\ (lastEvent.done.ops # <<>> /\ ~lastEvent.done.threw)
          => store[t] = TierAfterWrite(lastEvent.request, lastEvent.before[t])

\* C15: a write request (setColor, setColors, resetColor, resetAllColors) that carries
\* no tier selector mutates the Global tier and no other tier
C15_NoSelectorWritesGlobal ==
    (/\ lastEvent.kind = "handle"
     /\ lastEvent.request.method[1] \in WriteMethods
     /\ lastEvent.request.params.target = Absent)
    => WroteExactly(vscodeConfigurationTarget.Global)

\* a setColor without a target went through while the workspace tier held entries
C15_Witness ==
    /\ lastEvent.kind = "handle"
    /\ lastEvent.request.method = Present(<<"setColor">>)
    /\ lastEvent.request.params.target = Absent
    /\ ~lastEvent.done.threw /\ lastEvent.done.ops # <<>>
    /\ lastEvent.before[vscodeConfigurationTarget.Workspace] # EmptyMap
    /\ store[vscodeConfigurationTarget.Global] # lastEvent.before[vscodeConfigurationTarget.Global]

\* the closed set of methods
BridgeMethods ==
    {<<"getCurrentColors">>, <<"getColor">>, <<"setColor">>, <<"setColors">>,
     <<"resetColor">>, <<"resetAllColors">>}

\* C29: a request passed to handleRequest whose method is outside the six methods
\* never reaches the store and yields an error response with the request's id, not
\* an exception
C29_UnknownMethodIsErrorResponse ==
    (/\ lastEvent.kind = "handle"
     /\ lastEvent.request.method[1] \notin BridgeMethods)
    => /\ lastEvent.done.ops = <<>>
       /\ store = lastEvent.before
       /\ ~lastEvent.done.rejected
       /\ lastEvent.done.response.id = lastEvent.request.id
       /\ lastEvent.done.response.result = Absent
       /\ lastEvent.done.response.error
            = Present(<<"Unknown bridge method: ">> \o lastEvent.request.method[1])

\* a request for 'SetColor' with a key, a value and a tier was handled while the
\* store held entries
C29_Witness ==
    /\ lastEvent.kind = "handle"
    /\ lastEvent.request.method = Present(<<"SetColor">>)
    /\ lastEvent.request.params.key = Present(Key1)
    /\ lastEvent.done.response.error # Absent
    /\ lastEvent.before[vscodeConfigurationTarget.Global] # EmptyMap
    /\ store = lastEvent.before

\* the request with its tier selector replaced
WithTarget(request, target) ==
    [request EXCEPT !.params = [request.params EXCEPT !.target = target]]

\* C28: for getCurrentColors and getColor the tier selector has no effect: whatever
\* the store holds and whatever key is asked for, the response is the one the same
\* request gets with any other selector or with none, and no tier is modified
C28_ReadsIgnoreTier ==
    (/\ lastEvent.kind = "handle"
     /\ lastEvent.request.method[1] \in {<<"getCurrentColors">>, <<"getColor">>})
    => /\ store = lastEvent.before
       /\ \A t \in TargetArgs :
            LET other == handleRequest(WithTarget(lastEvent.request, t), lastEvent.before,
                                       lastEvent.fault)
            IN  /\ other.response = lastEvent.done.response
                /\ other.store = lastEvent.before

\* a getColor naming the Global tier was answered while the workspace tier overrode
\* the Global entry of its key
C28_Witness ==
    /\ lastEvent.kind = "handle"
    /\ lastEvent.request.method = Present(<<"getColor">>)
    /\ lastEvent.request.params.key = Present(Key1)
    /\ lastEvent.request.params.target = Present(<<"Global">>)
    /\ ~lastEvent.done.threw
    /\ Key1 \in DOMAIN lastEvent.before[vscodeConfigurationTarget.Global]
    /\ Key1 \in DOMAIN lastEvent.before[vscodeConfigurationTarget.Workspace]
    /\ lastEvent.before[vscodeConfigurationTarget.Global][Key1]
         # lastEvent.before[vscodeConfigurationTarget.Workspace][Key1]
    /\ lastEvent.done.response.result
         = Present([t |-> "str", v |-> lastEvent.before[vscodeConfigurationTarget.Workspace][Key1]])

\* the tier a selector names
NamedTier(target) ==
    CASE target = Present(<<"Global">>) -> vscodeConfigurationTarget.Global
      [] target = Present(<<"Workspace">>) -> vscodeConfigurationTarget.Workspace
      [] target = Present(<<"WorkspaceFolder">>) -> vscodeConfigurationTarget.WorkspaceFolder

\* C16: a write request (setColor, setColors, resetColor, resetAllColors) that names a
\* tier among Global, Workspace and WorkspaceFolder is applied to exactly that tier and
\* leaves the other tiers unchanged
C16_WritesNamedTier ==
    (/\ lastEvent.kind = "handle"
     /\ lastEvent.request.method[1] \in WriteMethods
     /\ lastEvent.request.params.target \in
           {Present(<<"Global">>), Present(<<"Workspace">>), Present(<<"WorkspaceFolder">>)})
    => WroteExactly(NamedTier(lastEvent.request.params.target))

\* the tier selectors that name a tier
ConfigurationTargets == {<<"Global">>, <<"Workspace">>, <<"WorkspaceFolder">>}

\* C34: a write request whose tier selector is none of Global, Workspace,
\* WorkspaceFolder is not rejected: it is executed against the Global tier, as the same
\* request naming Global is, and when its parameters are there and the store does not
\* fail it is answered with the success acknowledgment
C34_UnknownSelectorWritesGlobal ==
    (/\ lastEvent.kind = "handle"
     /\ lastEvent.request.method[1] \in WriteMethods
     /\ lastEvent.request.params.target # Absent
     /\ lastEvent.request.params.target[1] \notin ConfigurationTargets)
    => LET named == handleRequest(WithTarget(lastEvent.request, Present(<<"Global">>)),
                                  lastEvent.before, lastEvent.fault)
       IN  /\ WroteExactly(vscodeConfigurationTarget.Global)
           /\ lastEvent.done.response = named.response
           /\ store = named.store
           /\ (lastEvent.done.ops # <<>> /\ lastEvent.fault = Absent)
                 => /\ lastEvent.done.response.result = Success
                    /\ lastEvent.done.response.error = Absent

\* a setColor for the tier 'workspace' was acknowledged and changed the Global tier
\* while the Workspace tier held another value for the key
C34_Witness ==
    /\ lastEvent.kind = "handle"
    /\ lastEvent.request.method = Present(<<"setColor">>)
    /\ lastEvent.request.params.target = Present(<<"workspace">>)
    /\ lastEvent.done.response.result = Success
    /\ Key1 \in DOMAIN lastEvent.before[vscodeConfigurationTarget.Workspace]
    /\ store[vscodeConfigurationTarget.Workspace]
         = lastEvent.before[vscodeConfigurationTarget.Workspace]
    /\ store[vscodeConfigurationTarget.Global] # lastEvent.before[vscodeConfigurationTarget.Global]
    /\ store[vscodeConfigurationTarget.Global][Key1]
         # store[vscodeConfigurationTarget.Workspace][Key1]

----------------------------------------------------------------------------
(* Claims about round trips through the bridge *)

ResolvedCall(id) == Settled(id) /\ outcomes[id][1].kind = "resolve"

\* the nth call was `first`, the next one `second`, and both resolved
ResolvedInTurn(n, first, second) ==
    /\ MapHas(calls, RequestIdOf(n)) /\ MapHas(calls, RequestIdOf(n + 1))
    /\ calls[RequestIdOf(n)].method = first
    /\ calls[RequestIdOf(n + 1)].method = second
    /\ ResolvedCall(RequestIdOf(n)) /\ ResolvedCall(RequestIdOf(n + 1))

\* C11: a setColor(k, v) call that resolves, followed by a getColor(k) call with no
\* write to k in between, resolves with v
C11_SetThenGet ==
    \A n \in 0..(MaxSequentialCalls - 2) :
        (/\ ResolvedInTurn(n, <<"setColor">>, <<"getColor">>)
         /\ calls[RequestIdOf(n + 1)].params.key = calls[RequestIdOf(n)].params.key)
        => outcomes[RequestIdOf(n + 1)][1].value =
             Present([t |-> "str", v |-> calls[RequestIdOf(n)].params.value[1]])

\* C12: a resetColor(k) call that resolves, followed by a getColor(k) call with no
\* write to k in between, resolves with the absent value
C12_ResetThenGet ==
    \A n \in 0..(MaxSequentialCalls - 2) :
        (/\ ResolvedInTurn(n, <<"resetColor">>, <<"getColor">>)
         /\ calls[RequestIdOf(n + 1)].params.key = calls[RequestIdOf(n)].params.key)
        => outcomes[RequestIdOf(n + 1)][1].value = Absent

\* the entries the nth call set explicitly, as key-value pairs
EntriesSetBy(n) ==
    LET c == calls[RequestIdOf(n)] IN
    CASE c.method = <<"setColor">> -> {<<c.params.key[1], c.params.value[1]>>}
      [] c.method = <<"setColors">> ->
           {<<k, c.params.colors[1][k]>> : k \in DOMAIN c.params.colors[1]}
      [] OTHER -> {}

\* C13: once resetAllColors for a tier has resolved, the next getCurrentColors returns
\* none of the entries set in that tier by earlier setColor/setColors calls
C13_ResetAllThenGetCurrent ==
    \A n \in 0..(MaxSequentialCalls - 2) :
        ResolvedInTurn(n, <<"resetAllColors">>, <<"getCurrentColors">>)
        => LET returned == outcomes[RequestIdOf(n + 1)][1].value IN
           \A m \in 0..(n - 1) : \A entry \in EntriesSetBy(m) :
               ~(/\ returned # Absent
                 /\ entry[1] \in DOMAIN returned[1].v
                 /\ returned[1].v[entry[1]] = entry[2])

----------------------------------------------------------------------------
(* Claims about the dispatcher with several requests in hand *)

\* C33: the dispatcher invokes the executor exactly once for each well-formed request
\* it receives, never for a message that is no request, and sends at most one response
\* per received request, also when the invocations for several requests are interleaved
\* at their await
C33_OnceEach ==
    \A h \in DOMAIN handlers :
        /\ handlers[h].invoked = (IF isBridgeRequest(handlers[h].request) THEN 1 ELSE 0)
        /\ handlers[h].sent <= 1
        /\ handlers[h].pc = "awaiting" => handlers[h].sent = 0
        /\ ~isBridgeRequest(handlers[h].request) => handlers[h].sent = 0

\* two requests were in hand at once, the one received second was answered first, and
\* each got its one response
C33_Witness ==
    /\ Len(handlers) >= 2
    /\ handlers[1].pc = "done" /\ handlers[2].pc = "done"
    /\ handlers[2].order < handlers[1].order
    /\ handlers[1].sent = 1 /\ handlers[2].sent = 1
    /\ handlers[1].request.id = handlers[2].request.id

----------------------------------------------------------------------------
(* Claims about the tools *)

\* a tool call that front-end validation is to reject: no arguments, a colour value
\* that is not valid, a group that is not one of the groups
ToBeRejected(event) ==
    \/ event.args = Absent
    \/ event.name = "setColor" /\ ~event.valid
    \/ event.name = "getColorsInGroup" /\ event.args[1].group \notin KnownGroups

\* C35: a tool call rejected by front-end validation (setColor with an invalid colour
\* value, getColorsInGroup with an unknown group, either with no arguments) issues no
\* bridge request: the store is unchanged and no pending record is created
C35_RejectedToolCallIssuesNothing ==
    [][(lastEvent'.kind = "toolStarts" /\ ToBeRejected(lastEvent'))
       => /\ tool'.pc = "threw"
          /\ UNCHANGED <<requestId, pendingRequests, timers, calls, toParent, store>>]_vars

\* the getColor call the setColor tool awaits has failed: its promise was rejected (a
\* timeout, a failed send, a disconnect, an error response), or the response that
\* settled it reports a failure of the executor
GetColorFailed ==
    \/ outcomes[tool.awaiting[1]][1].kind = "reject"
    \/ /\ lastEvent.kind = "deliver"
       /\ lastEvent.id = tool.awaiting
       /\ lastEvent.threw

\* C36: in the setColor tool the setColor request is issued only once the getColor
\* call before it has resolved; when that getColor call fails (remote error, timeout,
\* transport error, disconnect) no setColor request is issued and the tool call fails
C36_SetColorOnlyAfterGetColor ==
    [][/\ (/\ requestId' # requestId
           /\ calls'[RequestIdOf(requestId)].method = <<"setColor">>)
          => /\ lastEvent'.kind = "toolResumes"
             /\ tool.pc = "awaitGetColor"
             /\ outcomes[tool.awaiting[1]] # <<>>
             /\ ~GetColorFailed
       /\ (/\ lastEvent'.kind = "toolResumes"
           /\ tool.pc = "awaitGetColor"
           /\ GetColorFailed)
          => /\ tool'.pc = "threw"
             /\ UNCHANGED <<requestId, calls, toParent, pendingRequests>>]_vars

----------------------------------------------------------------------------
(* Claims about several correlators *)

\* C32: with two correlator instances in one process listening on the same channel,
\* a response to a request issued by one instance never settles a pending call of the
\* other instance
C32_ResponseSettlesOwnInstanceOnly ==
    [][(lastEvent'.kind = "deliverBoth")
       => /\ (lastEvent'.issuer = "first")
               => /\ bridge2'.outcomes = bridge2.outcomes
                  /\ bridge2'.pendingRequests = bridge2.pendingRequests
          /\ (lastEvent'.issuer = "second")
               => UNCHANGED <<outcomes, pendingRequests>>]_vars

----------------------------------------------------------------------------
(* Claims about startup *)

\* C26: when BRIDGE_PORT is absent at the start of the child, startup ends in a fatal
\* error: the child never serves tool calls
C26_NoPortNoService ==
    BRIDGE_PORT = Absent => (main # "serving" /\ DOMAIN calls = {})

----------------------------------------------------------------------------
(* Claims about the typed wrappers *)

\* C22: a typed call that lacks a required parameter (getColor/resetColor without key,
\* setColor without key or value, setColors without colors) fails at the call site:
\* it is rejected within the call and no request is placed on the channel
C22_MissingParamFailsAtCallSite ==
    [][(/\ lastEvent'.kind = "call"
        /\ LET c == calls'[lastEvent'.id] IN
           MissingParams([method |-> Present(c.method), params |-> c.params]) # {})
       => /\ toParent' = toParent
          /\ outcomes'[lastEvent'.id] # <<>>
          /\ outcomes'[lastEvent'.id][1].kind = "reject"]_vars

----------------------------------------------------------------------------
(* Claims about the responses of the dispatcher *)

\* C24: every response the dispatcher produces carries at most one of result and
\* error: a success response has no error field, a failure response no result field
C24_ResultXorError ==
    /\ lastEvent.kind = "handle" =>
          LET response == lastEvent.done.response IN
          /\ ~(response.result # Absent /\ response.error # Absent)
          /\ ~lastEvent.done.threw => response.error = Absent
          /\ lastEvent.done.threw => (response.result = Absent /\ response.error # Absent)
    /\ \A envelope \in toChild :
          ~(envelope.message.result # Absent /\ envelope.message.error # Absent)

\* a getColor of a customized key failed in the executor with an empty message, and
\* the response is on its way
C24_Witness ==
    /\ lastEvent.kind = "handle"
    /\ lastEvent.request.method = Present(<<"getColor">>)
    /\ lastEvent.request.params.key = Present(Key1)
    /\ lastEvent.fault = Present(NewError(EmptyString))
    /\ Key1 \in DOMAIN Effective(store)
    /\ toChild # {}

----------------------------------------------------------------------------
(* Claims about the dispatcher's outbound side *)

\* C23: when the dispatcher has a response and process.send is missing or the send
\* fails, the handler raises nothing; a request that arrives next is handled
C23_SendFailureRaisesNothing ==
    [][/\ (lastEvent'.kind = "outbound" /\ lastEvent'.send # "sent")
          => lastEvent'.raised = Absent
       /\ (/\ lastEvent.kind = "outbound" /\ lastEvent.send # "sent"
           /\ lastEvent'.kind = "outbound")
          => lastEvent'.handled /\ store' = lastEvent'.after]_vars

====
